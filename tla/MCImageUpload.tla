---------------------------- MODULE MCImageUpload -----------------------------
(***************************************************************************)
(* An instance of ImageUpload: the name of a client's file is the client.  *)
(***************************************************************************)
EXTENDS ImageUpload

MCNameOf == [c \in Clients |-> c]
===============================================================================

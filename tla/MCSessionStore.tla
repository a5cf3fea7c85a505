--------------------------- MODULE MCSessionStore ---------------------------
(***************************************************************************)
(* A small session store for model checking: the chat and one command      *)
(* thread, a handful of records, two crashes and one failed write.          *)
(***************************************************************************)
EXTENDS SessionStore
=============================================================================

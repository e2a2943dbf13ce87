----------------------------- MODULE MCSscpHttp -----------------------------
(***************************************************************************)
(* SscpHttp with two slots and one or two cells: a cell is used again for  *)
(* a later request, and both slots may point to the same one.              *)
(***************************************************************************)
EXTENDS SscpHttp

\* "with connData->conn == NULL to cleanup after a connection is terminated"
\* (sscp-http.c:36): after the cleanup nothing leads to the freed memory any more.
NothingFreedIsUsed == ~wild
=============================================================================

------------------------------ MODULE MCPaging ------------------------------
(* Answers of at most two rows, at most two of them from GitHub, and up to    *)
(* five rows; a client may ask for less than the cap, the cap and more.        *)
EXTENDS Paging
=============================================================================

------------------------------ MODULE MCPaging ------------------------------
(* A bitmap of one byte of which four frames are free, two page directory *)
(* entries and tables of two entries: two tables and two pages fit, and a  *)
(* third page, or one frame that is not given back, uses the memory up.    *)
EXTENDS Paging

MCAvailable == {1, 2, 4, 7}
=============================================================================

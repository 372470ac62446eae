----------------------------- MODULE MCExportStream -----------------------------
(* A small instance of ExportStream for TLC: the whole chain, its tail and  *)
(* a range that ends before the head; one export, and no more steps once it *)
(* has ended.                                                               *)
EXTENDS ExportStream

MCRequests == {<<0, -1>>, <<1, 1>>}
UntilTheEnd == stream.at \notin {"done", "lost"}
=================================================================================

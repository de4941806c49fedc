--------------------------- MODULE MCArchiveUpload ---------------------------
(* ArchiveUpload with a file of two bytes, so that there are first, middle and *)
(* last chunks, and two requests at once.                                     *)
EXTENDS ArchiveUpload
=============================================================================

--------------------------- MODULE MCKnowledgeIndex ---------------------------
(* Two documents, a text and a blank one; a scan and one request at a time.    *)
EXTENDS KnowledgeIndex

CONSTANTS text, blank, torn
=============================================================================

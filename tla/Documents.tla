------------------------------ MODULE Documents ------------------------------
(***************************************************************************)
(* How a document is read for an index: its chunks and its links.          *)
(***************************************************************************)
EXTENDS Arguments

CONSTANTS MaxRunes, MaxChunks, MaxLinks

Chunks == INSTANCE DocumentChunks

\* A chunk has room for more than the end of a line.
ASSUME ChunksAssumption == /\ MaxRunes \in Nat /\ 2 <= MaxRunes
                           /\ MaxChunks \in Nat /\ MaxLinks \in Nat

\* What is searched loses nothing of a document and invents nothing, and its links are the
\* files of its package that it names (ChunkDocument, ExtractMarkdownLinks).
DocumentIsCarried ==
  /\ Given("chunks") => Chunks!ChunksCarryDocument(input.x.doc, input.x.markdown)
  /\ Given("links") => Chunks!LinksStayInside(input.x.path, input.x.doc)
=============================================================================

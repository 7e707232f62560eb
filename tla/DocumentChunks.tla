---------------------------- MODULE DocumentChunks ----------------------------
(***************************************************************************)
(* The retrieval units of a document and the links it makes                *)
(* (internal/knowledge/chunker.go).  A document is a sequence of lines; a  *)
(* rune is a pair of its line's number and its place there, so that where  *)
(* a piece of text comes from can be told.                                 *)
(***************************************************************************)
EXTENDS Integers, Sequences, FiniteSets, SequencesExt, Selections

CONSTANTS MaxRunes, MaxChunks, MaxLinks

\* level is that of a heading, size the runes of a line that is not blank, mark the sort
\* of a fence, links the targets that a line of text or a heading names.
Targets == [scheme : BOOLEAN, path : Seq(STRING)]
Lines == [is : {"heading", "fence", "text", "blank"}, level : 1 .. 6, size : Nat \ {0},
          mark : {"ticks", "tildes"}, links : Seq(Targets)]
Documents == Seq(Lines) \ {<<>>}

NewLine == <<0, 0>>
Runes(doc, i) == IF doc[i].is = "blank" THEN <<>> ELSE [k \in 1 .. doc[i].size |-> <<i, k>>]

\* Lines m to n with each one ended, and the same without the last end.
Body(doc, m, n) == FlattenSeq([i \in 1 .. n - m + 1 |-> Append(Runes(doc, m + i - 1), NewLine)])
Text(doc, m, n) == Front(Body(doc, m, n))

-----------------------------------------------------------------------------
\* fenceOpenMarker, and the loops' inFence: before which lines a fence is open, and which.
Fences(doc) ==
  LET open[i \in 0 .. Len(doc)] ==
        IF i = 0 THEN "none"
        ELSE IF doc[i].is # "fence" THEN open[i - 1]
        ELSE IF open[i - 1] = "none" THEN doc[i].mark
        ELSE IF open[i - 1] = doc[i].mark THEN "none" ELSE open[i - 1]
  IN [i \in DOMAIN doc |-> open[i - 1]]

\* The headings: parseATXHeading, on a line outside a fence.
Headings(doc) == {i \in DOMAIN doc : doc[i].is = "heading" /\ Fences(doc)[i] = "none"}

\* The stack of open headings after heading i, each by its line.
Pushed(stack, doc, i) ==
  LET kept == {n \in 0 .. Len(stack) : n = 0 \/ doc[stack[n]].level < doc[i].level}
      top  == CHOOSE n \in kept : \A m \in kept : m <= n
  IN Append(SubSeq(stack, 1, top), i)

\* splitMarkdownSections: a section is its lines and the headings it is under.
Cuts(doc) == Ascending(Headings(doc) \cup {1, Len(doc) + 1})

SplitMarkdownSections(doc) ==
  LET at == Cuts(doc)
      stack[n \in 0 .. Len(at) - 1] ==
        IF n = 0 THEN <<>>
        ELSE IF at[n] \in Headings(doc) THEN Pushed(stack[n - 1], doc, at[n]) ELSE <<>>
      all == [n \in 1 .. Len(at) - 1 |->
                [first |-> at[n], last |-> at[n + 1] - 1, path |-> stack[n],
                 body |-> Body(doc, at[n], at[n + 1] - 1)]]
  IN Picked(all, {n \in DOMAIN all : \E i \in at[n] .. at[n + 1] - 1 : doc[i].is # "blank"})

\* hasProse looks at a line without its fence.
HasProse(doc, s) == \E i \in s.first .. s.last : doc[i].is \in {"fence", "text"}

-----------------------------------------------------------------------------
\* splitParagraphs: what blank lines leave.
Paragraphs(doc, s) ==
  LET filled(i) == i \in s.first .. s.last /\ doc[i].is # "blank"
      starts == Ascending({i \in s.first .. s.last : filled(i) /\ ~filled(i - 1)})
      endOf(i) == CHOOSE j \in i .. s.last : ~filled(j + 1) /\ \A k \in i .. j : filled(k)
  IN [n \in DOMAIN starts |-> Text(doc, starts[n], endOf(starts[n]))]

SplitRuneWindows(t) ==
  LET Least(m, n) == IF m < n THEN m ELSE n
  IN [k \in 1 .. (Len(t) + MaxRunes - 1) \div MaxRunes |->
        SubSeq(t, (k - 1) * MaxRunes + 1, Least(k * MaxRunes, Len(t)))]

\* splitOversized: paragraphs packed in a window as long as they fit.
Flushed(w) == IF w.window = <<>> THEN w.pieces ELSE Append(w.pieces, w.window)
Packed(w, t) ==
  IF Len(t) > MaxRunes THEN [pieces |-> Flushed(w) \o SplitRuneWindows(t), window |-> <<>>]
  ELSE IF w.window = <<>> THEN [w EXCEPT !.window = t]
  ELSE IF Len(w.window) + 2 + Len(t) > MaxRunes THEN [pieces |-> Flushed(w), window |-> t]
  ELSE [w EXCEPT !.window = @ \o <<NewLine, NewLine>> \o t]

SplitOversized(doc, s) ==
  LET ts == Paragraphs(doc, s)
      w[n \in 0 .. Len(ts)] ==
        IF n = 0 THEN [pieces |-> <<>>, window |-> <<>>] ELSE Packed(w[n - 1], ts[n])
  IN IF Len(s.body) <= MaxRunes THEN <<s.body>> ELSE Flushed(w[Len(ts)])

\* ChunkDocument: a section without prose waits for the next one that has some.
Chunk(path, added, content) == [path |-> path, added |-> added, content |-> added \o content]

\* Mutant: what has waited stays, and is put before the next section too.
ChunkedAgain(c, doc, s) ==
  IF ~HasProse(doc, s) THEN [c EXCEPT !.pending = @ \o s.body]
  ELSE LET pieces == SplitOversized(doc, s)
       IN [c EXCEPT !.chunks = @ \o [n \in DOMAIN pieces |->
                          Chunk(s.path, IF n = 1 THEN c.pending ELSE <<>>, pieces[n])]]

Chunked(c, doc, s) ==
  IF ~HasProse(doc, s) THEN [c EXCEPT !.pending = @ \o s.body]
  ELSE LET pieces == SplitOversized(doc, s)
       IN [chunks |-> c.chunks \o [n \in DOMAIN pieces |->
                         Chunk(s.path, IF n = 1 THEN c.pending ELSE <<>>, pieces[n])],
           pending |-> <<>>]

Limited(all) ==
  IF Len(all) <= MaxChunks THEN [chunks |-> all, truncated |-> FALSE]
  ELSE [chunks |-> SubSeq(all, 1, MaxChunks), truncated |-> TRUE]

SectionsOf(doc, markdown) ==
  IF markdown THEN SplitMarkdownSections(doc)
  ELSE <<[first |-> 1, last |-> Len(doc), path |-> <<>>, body |-> Text(doc, 1, Len(doc))]>>

ChunkDocument(doc, markdown) ==
  LET sections == SectionsOf(doc, markdown)
      c[n \in 0 .. Len(sections)] ==
        IF n = 0 THEN [chunks |-> <<>>, pending |-> <<>>] ELSE Chunked(c[n - 1], doc, sections[n])
  IN Limited(c[Len(sections)].chunks)

-----------------------------------------------------------------------------
\* path.Clean, of a path from the root of the package: one that leaves it begins with "..".
Entered(at, s) == IF s # ".." THEN Append(at, s)
                  ELSE IF at = <<>> \/ Last(at) = ".." THEN Append(at, "..")
                  ELSE Front(at)
Clean(path) ==
  LET at[n \in 0 .. Len(path)] == IF n = 0 THEN <<>> ELSE Entered(at[n - 1], path[n])
  IN at[Len(path)]

\* resolveRelativeLink and the caller's seen; path names the document.
Resolved(path, link) == Clean(Front(path) \o link.path)
Refers(path, link) == /\ ~link.scheme /\ link.path # <<>>
                      /\ Resolved(path, link) \notin {<<>>, path}
                      /\ Head(Resolved(path, link)) # ".."

Seen(targets, path, link) ==
  IF ~Refers(path, link) \/ Resolved(path, link) \in ToSet(targets) \/ Len(targets) >= MaxLinks
  THEN targets ELSE Append(targets, Resolved(path, link))

\* What a line names, outside a fence.
Named(doc, i) == IF Fences(doc)[i] = "none" /\ doc[i].is # "fence" THEN doc[i].links ELSE <<>>

ExtractMarkdownLinks(path, doc) ==
  LET links == FlattenSeq([i \in DOMAIN doc |-> Named(doc, i)])
      found[n \in 0 .. Len(links)] == IF n = 0 THEN <<>> ELSE Seen(found[n - 1], path, links[n])
  IN found[Len(links)]

-----------------------------------------------------------------------------
Marks(t) == Picked(t, {k \in DOMAIN t : t[k] # NewLine})
Prose(doc) == {i \in DOMAIN doc : \/ doc[i].is \in {"fence", "text"}
                                  \/ doc[i].is = "heading" /\ i \notin Headings(doc)}
Encloses(doc, h, i) == /\ h \in Headings(doc) /\ h <= i
                       /\ \A k \in Headings(doc) : h < k /\ k <= i => doc[k].level > doc[h].level

\* The chunks of a document hold every rune of it once and in order, up to the last
\* line of prose (the headings after that are evidence of nothing), or to the limit
\* on their number; a chunk is under the headings that enclose its prose and no
\* others, and is within the limit on its size, the headings put before it apart.
AnswerCarries(doc, markdown, r) ==
  LET all  == Marks(FlattenSeq([n \in DOMAIN r.chunks |-> r.chunks[n].content]))
      last == {i \in DOMAIN doc : i \in Prose(doc) \/ (~markdown /\ doc[i].is = "heading")}
      end  == IF last = {} THEN 0 ELSE CHOOSE i \in last : \A j \in last : j <= i
      want == IF end = 0 THEN <<>> ELSE Marks(Text(doc, 1, end))
  IN /\ IF r.truncated THEN Len(r.chunks) = MaxChunks /\ IsPrefix(all, want) /\ all # want
        ELSE all = want \/ (~markdown /\ Prose(doc) = {} /\ all = <<>>)
     /\ \A n \in DOMAIN r.chunks :
          LET c == r.chunks[n]
          IN /\ Len(c.content) - Len(c.added) <= MaxRunes
             /\ \A k \in DOMAIN c.content : LET i == c.content[k][1] IN
                  i \in Prose(doc) =>
                    ToSet(c.path) = (IF markdown THEN {h \in DOMAIN doc : Encloses(doc, h, i)} ELSE {})

ChunksCarryDocument(doc, markdown) == AnswerCarries(doc, markdown, ChunkDocument(doc, markdown))

\* The links of a document are the files of its package that its text names, each
\* once; one whose path leaves the package on the way is none, wherever it ends.
LinksStayInside(path, doc) ==
  LET links == ExtractMarkdownLinks(path, doc)
      depth(s, n) == Cardinality({m \in 1 .. n : s[m] # ".."}) - Cardinality({m \in 1 .. n : s[m] = ".."})
      full(k) == Front(path) \o k.path
      stays(k) == \A n \in DOMAIN full(k) : depth(full(k), n) >= 0
      named == {k \in UNION {ToSet(doc[i].links) : i \in {j \in DOMAIN doc :
                               Fences(doc)[j] = "none" /\ doc[j].is # "fence"}} :
                  ~k.scheme /\ k.path # <<>> /\ stays(k) /\ Resolved(path, k) \notin {<<>>, path}}
  IN /\ Cardinality(ToSet(links)) = Len(links) /\ Len(links) <= MaxLinks
     /\ ToSet(links) \subseteq {Resolved(path, k) : k \in named}
     /\ Len(links) < MaxLinks => ToSet(links) = {Resolved(path, k) : k \in named}
=============================================================================

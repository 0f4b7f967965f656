-------------------------------- MODULE Page --------------------------------
(***************************************************************************)
(* What the library reads off a parsed page (src/crates/amber-core/src/):  *)
(* boilerplate (extract.rs), metadata (meta.rs), selection (selectors.rs)  *)
(* and provenance (provenance.rs).  A page is the sequence of its elements *)
(* in document order: [depth, tag, id, text, href, rel], where text is     *)
(* what stands directly in the element.  The parser is external.           *)
(***************************************************************************)
EXTENDS Text

\* A sequence of elements is a page if every element has a parent in it.
IsPage(d) == \A i \in DOMAIN d :
  IF i = 1 THEN d[i].depth = 1 ELSE d[i].depth \in 2..(d[i - 1].depth + 1)

Parents(d, i) == {j \in 1..(i - 1) : d[j].depth = d[i].depth - 1}
Above(d, i) == {j \in 1..(i - 1) : \A k \in (j + 1)..i : d[k].depth > d[j].depth}
Within(d, i) == {i} \cup {j \in DOMAIN d : i \in Above(d, j)}

InOrder(S) == SetToSortSeq(S, <)

\* ElementRef::text.
TextOf(d, i) == LET at == InOrder(Within(d, i)) IN FlattenSeq([k \in DOMAIN at |-> d[at[k]].text])

-----------------------------------------------------------------------------
\* extract.rs.

Boilerplate == {"nav", "footer", "aside"}

\* Detaching an element takes what is inside it along.
Detached(d, ids) == {j \in DOMAIN d : ids \cap ({j} \cup Above(d, j)) = {}}

\* clean_boilerplate, for to_markdown.
CleanBoilerplate(d) ==
  LET kept == InOrder(Detached(d, {i \in DOMAIN d : d[i].tag \in Boilerplate})) IN
  [k \in DOMAIN kept |-> d[kept[k]]]

-----------------------------------------------------------------------------
\* meta.rs.  An href is [kind, to]: "web" is http or https, "other" another
\* scheme, "fragment" starts with "#", "none" is missing or empty; and what it
\* names, on the host of the page if it is "relative".

\* Url::join.
Resolve(base, href) ==
  [scheme |-> IF href.kind = "other" THEN "mailto" ELSE "https",
   host |-> IF href.kind = "relative" THEN base ELSE href.kind, to |-> href.to]

Listed(u, links) == u \in ToSet(links)

WithTag(d, tag) == InOrder({i \in DOMAIN d : d[i].tag = tag})

\* extract: the links, each once, and the next page.
Links(d, base) ==
  LET hrefs == InOrder({i \in DOMAIN d :
                 d[i].tag = "a" /\ d[i].href.kind \notin {"none", "fragment"}})
      urls == [k \in DOMAIN hrefs |-> Resolve(base, d[hrefs[k]].href)] IN
  FoldLeft(LAMBDA links, u :
             IF u.scheme \in {"http", "https"} /\ ~Listed(u, links)
             THEN Append(links, u) ELSE links, <<>>, urls)

NextPage(d, base) ==
  LET at == InOrder({i \in DOMAIN d : d[i].rel = "next" /\ d[i].href.kind # "none"}) IN
  IF at = <<>> THEN <<>> ELSE <<Resolve(base, d[at[1]].href)>>

\* The title, as any of the values that are read alike.
Title(d) ==
  LET at == WithTag(d, "title") IN
  IF at = <<>> \/ Trim(TextOf(d, at[1])) = <<>> THEN <<>> ELSE <<Trim(TextOf(d, at[1]))>>

-----------------------------------------------------------------------------
\* selectors.rs.  A candidate is a tag.

Texts(d, tag) ==
  LET at == WithTag(d, tag) IN
  NonEmpty([k \in DOMAIN at |-> Trim(TextOf(d, at[k]))])

\* select_first_text: candidates in order, then elements in order.
SelectFirstText(d, candidates) ==
  LET found == [c \in DOMAIN candidates |->
        {i \in DOMAIN d : d[i].tag = candidates[c] /\ Trim(TextOf(d, i)) # <<>>}]
      live == {c \in DOMAIN candidates : found[c] # {}} IN
  IF live = {} THEN <<>> ELSE <<Trim(TextOf(d, Min(found[Min(live)])))>>

\* select_all_text.
SelectAllText(d, candidates) ==
  FoldLeft(LAMBDA out, c : IF out = <<>> THEN Texts(d, c) ELSE out, <<>>, candidates)

-----------------------------------------------------------------------------
\* provenance.rs.

Deeper(d, i, best) == d[i].depth > d[best].depth

\* anchor_for: the first of the deepest elements with the text, 0 if none.
AnchorFor(d, needle) ==
  IF needle = <<>> THEN 0 ELSE
  FoldLeft(LAMBDA best, i :
             IF HasText(TextOf(d, i), needle) /\ (best = 0 \/ Deeper(d, i, best)) THEN i ELSE best,
           0, InOrder(DOMAIN d))

\* segment: an id ends the climb, and so does the body.
Segment(e) == <<e.tag, e.id>>
Stops(e) == e.id # "" \/ e.tag = "body"

\* css_path, from the top down.
CssPath(d, i) ==
  LET chain == Above(d, i) \cup {i}
      from == {j \in chain : Stops(d[j])}
      kept == {j \in chain : from = {} \/ j >= Max(from)} IN
  [k \in 1..Cardinality(kept) |-> Segment(d[InOrder(kept)[k]])]

-----------------------------------------------------------------------------
\* References.

\* A path selects the elements whose chain of ancestors ends in its segments.
Selects(d, path, i) ==
  LET chain == InOrder(Above(d, i) \cup {i}) IN
  IsSuffix(path, [k \in DOMAIN chain |-> Segment(d[chain[k]])])

\* An anchor is found whenever the page has the text; its element has the text
\* and no element inside it has it as a whole; and its path selects it, before
\* any other element as deep that has the text.
AnchorsAreSmallest(d, needle) ==
  LET i == AnchorFor(d, needle)
      has == {j \in DOMAIN d : HasText(TextOf(d, j), needle)} IN
  needle # <<>> =>
    /\ i = 0 <=> has = {}
    /\ i # 0 => /\ i \in has /\ Within(d, i) \cap has = {i}
                /\ Selects(d, CssPath(d, i), i)
                /\ \A j \in has : d[j].depth = d[i].depth => i <= j

\* The first text is the first of all texts.
FirstIsHeadOfAll(d, candidates) ==
  LET all == SelectAllText(d, candidates) IN
  SelectFirstText(d, candidates) = IF all = <<>> THEN <<>> ELSE <<Head(all)>>

\* No link is listed twice, all can be visited, and a next page that is a link
\* of the page is among them, when it can be visited at all.
LinksHoldNext(d, base) ==
  LET links == Links(d, base)
      next == {i \in DOMAIN d : d[i].rel = "next" /\ d[i].href.kind # "none"} IN
  /\ IsInjective(links)
  /\ \A u \in ToSet(links) : u.scheme \in {"http", "https"}
  /\ next # {} => LET e == d[Min(next)] IN
       e.tag = "a" /\ e.href.kind \in {"web", "relative"} =>
         NextPage(d, base)[1] \in ToSet(links)

\* After cleaning, what remains is a page, and of the text of the page exactly
\* that outside all boilerplate.
RECURSIVE ContentFrom(_, _)
ContentFrom(d, i) ==   \* walks the document, skipping boilerplate as a whole
  IF i > Len(d) THEN <<>>
  ELSE IF d[i].tag \in Boilerplate
  THEN LET after == {j \in (i + 1)..Len(d) : d[j].depth <= d[i].depth} IN
       IF after = {} THEN <<>> ELSE ContentFrom(d, Min(after))
  ELSE d[i].text \o ContentFrom(d, i + 1)

CleaningKeepsContent(d) ==
  LET c == CleanBoilerplate(d) IN
  /\ IsPage(c)
  /\ FlattenSeq([i \in DOMAIN c |-> c[i].text]) = ContentFrom(d, 1)

=============================================================================

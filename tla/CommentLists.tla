---------------------------- MODULE CommentLists ----------------------------
(***************************************************************************)
(* What the collectors of comments have in common.                         *)
(*                                                                         *)
(* The comments of a work are numbered in the order they were posted; a    *)
(* source lists them newest first.  A collector is asked for a page of     *)
(* them, and answers with some comments and with the cursor of the page    *)
(* that follows, or refuses.  A source is not reliable: it may leave a     *)
(* page empty or name the same position again, and what the collector then *)
(* checks decides whether that shows.                                      *)
(***************************************************************************)
EXTENDS Naturals, FiniteSets

CONSTANTS
    Size,        \* comments on a page, at least one
    MaxPosted    \* comments that a work may have

\* A position in one of a source's streams: a page, an offset, or the comment
\* after which the page begins.
NoCursor == [stream |-> "none", at |-> 0]
Cursor(stream, at) == [stream |-> stream, at |-> at]

Streams == {"none", "page", "offset", "after", "hot", "browser"}
Cursors == [stream : Streams, at : Nat]

\* A request: n comments exist when the source is asked.
Request(n, page, cursor) == [n |-> n, page |-> page, cursor |-> cursor]

\* The n comments of a work from place i on, a page of them, and whether more
\* of them follow.
Window(n, i) == {c \in 1 .. n : n - c \in i .. i + Size - 1}
Follows(n, i) == i + Size < n

\* The last comment of that page, which a cursor of the source may name; a
\* comment keeps its number when others are posted, so its place moves.
LastOf(n, i) == IF Follows(n, i) THEN n - (i + Size - 1) ELSE 1
PlaceAfter(n, c) == n - c + 1

-----------------------------------------------------------------------------
(* Answers.  zero: the work is said to have no comments at all.  final:    *)
(* retryable is False.  sure: the collector could tell that nothing is     *)
(* left out up to here; it is no field of the code.                        *)

Answers == [coverage : {"partial", "blocked", "failed", "unsupported"},
            items : SUBSET (1 .. MaxPosted), next : Cursors,
            zero : BOOLEAN, final : BOOLEAN, sure : BOOLEAN]

Answer(coverage, items, next) ==
    [coverage |-> coverage, items |-> items, next |-> next, zero |-> FALSE,
     final |-> FALSE, sure |-> TRUE]

Failed == Answer("failed", {}, NoCursor)
Blocked == Answer("blocked", {}, NoCursor)
Unsupported == Answer("unsupported", {}, NoCursor)

\* PublicDataUnavailable: the public page does not show the comments.
Unavailable == [Unsupported EXCEPT !.final = TRUE]

\* What any call to a source may come to.
Refused == {Failed, Blocked}

\* A page of comments, as a source with n of them returns it.
Page(n, items, next, sure) ==
    [Answer("partial", items, next) EXCEPT !.zero = (n = 0), !.sure = sure]

Zero == [Answer("partial", {}, NoCursor) EXCEPT !.zero = TRUE]

\* An answer without comments, though the source does not say there are none.
Empty(answer) == answer.items = {} /\ ~answer.zero

-----------------------------------------------------------------------------
(* The checks *)

\* Mutant: a page that continues may be empty.
require_any_page(rows, next, here) == next # NoCursor => next # here

\* A page that continues has comments, and continues elsewhere.
require_page(rows, next, here) ==
    next # NoCursor => rows # {} /\ next # here

\* The first page of a work with comments has comments.
checked_list(n, rows, first) == first /\ n > 0 => rows # {}

-----------------------------------------------------------------------------
(* One page *)

PageOf(q) == IF q.cursor = NoCursor THEN q.page ELSE q.cursor.at

\* Where the page that was asked for begins: pages are numbered, or have an
\* offset, or follow a comment.
PagePlace(q) == (PageOf(q) - 1) * Size
OffsetPlace(q) == IF q.cursor = NoCursor THEN (q.page - 1) * Size ELSE q.cursor.at
AfterPlace(q) ==
    IF q.cursor = NoCursor THEN (q.page - 1) * Size ELSE PlaceAfter(q.n, q.cursor.at)

\* How the source tells that the page is not the last one: by a mark (a count,
\* a number of pages, a link), by a full page, by either, or by any comment.
Continues(n, i, rows, ends) ==
    \/ ends \in {"mark", "either"} /\ Follows(n, i)
    \/ ends \in {"length", "either"} /\ Cardinality(rows) = Size
    \/ ends = "empty" /\ rows # {}

\* The page at place i as the source sends it, with the cursor `there` of what
\* follows it: the rows may be missing, and the cursor may be `here` again.
\* The collector cannot tell missing rows when nothing more is announced.
Sent(n, i, ends, here, there) ==
    {Page(n, pair[1], pair[2], pair[1] = Window(n, i) \/ pair[2] # NoCursor) :
        pair \in {p \in {Window(n, i), {}} \X {NoCursor, here, there} :
            (p[2] # NoCursor) = Continues(n, i, p[1], ends)}}

\* The collector takes it when it passes both checks, or only one of them.
Checked(answers, n, here, first) ==
    {a \in answers : checked_list(n, a.items, first) /\ require_page(a.items, a.next, here)}
Counted(answers, n, first) == {a \in answers : checked_list(n, a.items, first)}
Advancing(answers, here) == {a \in answers : require_page(a.items, a.next, here)}

\* A source with numbered pages, and one with offsets, asked for one page; it
\* is the collector that counts the pages.
Numbers(q, ends) ==
    LET there == Cursor("page", PageOf(q) + 1) IN Sent(q.n, PagePlace(q), ends, there, there)
Numbered(q, ends) ==
    Refused \union Checked(Numbers(q, ends), q.n, Cursor("page", PageOf(q)), PageOf(q) = 1)

Offsets(q) ==
    Sent(q.n, OffsetPlace(q), "mark", Cursor("offset", OffsetPlace(q)),
         Cursor("offset", OffsetPlace(q) + Size))

-----------------------------------------------------------------------------
(* Sources whose pages are only reached one after the other: without a     *)
(* cursor the collector starts at the first page and goes through `page`   *)
(* of them.                                                                *)

AtFirst(q) == q.page = 1 /\ q.cursor = NoCursor

Chain(q, ends) ==
    LET i == AfterPlace(q)
    IN  Sent(q.n, i, ends, q.cursor, Cursor("after", LastOf(q.n, i)))

\* Mutant: beyond the last page, the last page is returned again.
OutOfReachKept(q) ==
    {Page(q.n, Window(q.n, ((q.n - 1) \div Size) * Size), NoCursor, TRUE)}

\* The walk ends before the page that was asked for: there is nothing on it.
OutOfReach(q) == {Page(q.n, {}, NoCursor, TRUE)}

ReachesPage(q) == AtFirst(q) \/ AfterPlace(q) < q.n \/ q.cursor # NoCursor

Chained(q, ends) ==
    Refused \union
    IF ReachesPage(q) THEN Checked(Chain(q, ends), q.n, q.cursor, AtFirst(q))
    ELSE OutOfReach(q)

\* The same without a look at the count.
Followed(q) ==
    Refused \union
    IF ReachesPage(q) THEN Advancing(Chain(q, "mark"), q.cursor) ELSE OutOfReach(q)

-----------------------------------------------------------------------------
(* Collectors that look at nothing: whatever the source left out, on a page *)
(* or at the end, stays out unseen.                                        *)

Unseen(answers, n, i) ==
    {[a EXCEPT !.sure = (a.items = Window(n, i) /\ (Follows(n, i) => a.next # NoCursor))] :
        a \in answers}

\* The same request without its cursor: the collector goes by the page.
ByPage(q) == [q EXCEPT !.cursor = NoCursor]

-----------------------------------------------------------------------------
(* Articles that only show how many comments they have *)

\* article_stats: another article, or no counters at all.
Article == Refused \union {Unavailable}

\* An empty list is only confirmed by a count of zero.
zero_or_unavailable(q) == IF q.n = 0 THEN {Zero} ELSE {Unavailable}
=============================================================================

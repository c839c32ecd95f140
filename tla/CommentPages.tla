---------------------------- MODULE CommentPages ----------------------------
(***************************************************************************)
(* The comments of a work, page after page: the walk through all of them   *)
(* (_fetch_all_comments_with_status in app/api/routers/engagement.py) and  *)
(* the request of one page, through EngagementService.fetch_comments and   *)
(* EngagementCrawler.fetch_comments.  Other people go on commenting while  *)
(* the pages are read, and EngagementService._fetch_cached keeps answers   *)
(* for two minutes: when somebody else reads the same pages, a page may be *)
(* answered as it was before.  One such answer is kept here.               *)
(***************************************************************************)
EXTENDS PublisherComments, PlatformComments

CONSTANTS MaxPages    \* pages of a walk, 10 000 in the code

VARIABLES
    source,   \* whose work this is
    mode,     \* "walk": all pages; "single": one page
    posted,   \* comments of the work
    other,    \* the request of another caller whose answer the cache keeps
    page, cursor,
    got,      \* comments collected so far
    taken,    \* the last page that was taken: its comments, and how many there were
    end,      \* how the request ended, "none": it goes on
    before,   \* comments when the first page was read; not in the code, nor are:
    order,    \* whether the pages were read in their order
    doubt     \* a collector could not have noticed an omission

commentVars == <<source, mode, posted, other, page, cursor, got, taken, end, before, order, doubt>>

\* "same": all at one number of comments; "moved": at different ones, but no
\* page that is counted or has an offset before the one it follows; "older":
\* such a page did come from before.
Orders == {"same", "moved", "older"}

NoRequest == Request(0, 0, NoCursor)

Sources == Publishers \union Platforms

CommentsTypeOK ==
    /\ source \in Sources /\ mode \in {"walk", "single"}
    /\ posted \in 0 .. MaxPosted /\ before \in 0 .. posted
    /\ other.n \in 0 .. posted /\ other.page \in 0 .. MaxPages + 1 /\ other.cursor \in Cursors
    /\ page \in 1 .. MaxPages + 1 /\ cursor \in Cursors
    /\ got \subseteq 1 .. posted
    /\ taken.page \in 0 .. MaxPages + 1 /\ taken.items \subseteq got /\ taken.n \in 0 .. posted
    /\ end \in {"none", "refused", "partial", "page", "last", "complete"}
    /\ order \in Orders /\ doubt \in BOOLEAN

-----------------------------------------------------------------------------
(* What a request comes to *)

\* comment_capabilities: the sources that promise all public pages.
Promising ==
    {"douyin", "toutiao", "haokan", "kuaishou", "bilibili", "xiaohongshu"}

\* The sources that the browser can read.
Browsable ==
    {"toutiao", "weitoutiao", "xueqiu", "sohu", "sohu_auto", "sohu_client", "haokan",
     "kuaishou", "bilibili", "xiaohongshu", "xiaohongshu_guest"}

Usable(a) == a.coverage = "partial"

ProtocolAnswers(q) ==
    IF source \in Publishers THEN PublisherAnswers(source, q) ELSE PlatformAnswers(source, q)

\* The browser takes over when the collector has nothing, and not for good.
\* Attempts that are repeated come to one of the same answers.
NeedsBrowser(a) ==
    source \in Browsable /\ ~a.final /\ (~Usable(a) \/ Empty(a))

CrawlerAnswers(q) ==
    LET answers == ProtocolAnswers(q)
    IN  answers \union
        (IF \E a \in answers : NeedsBrowser(a) THEN BrowserAnswers(source, q) ELSE {})

\* EngagementCrawler.fetch_comments: a cursor means that a page follows.
NextPage(a) == IF a.next = NoCursor THEN 0 ELSE page + 1

Asked == Request(posted, page, cursor)

\* _fetch_cached: the page is asked for, or it was, by the same page and cursor.
Answerable == {Asked} \union ({other} \intersect [n : 0 .. posted, page : {page}, cursor : {cursor}])

-----------------------------------------------------------------------------
CommentsInit ==
    /\ source \in Sources /\ mode \in {"walk", "single"}
    /\ posted \in 0 .. MaxPosted /\ other = NoRequest
    /\ page \in IF mode = "walk" THEN {1} ELSE 1 .. MaxPages
    /\ cursor = NoCursor /\ got = {} /\ taken = [page |-> 0, items |-> {}, n |-> 0]
    /\ end = "none" /\ before = 0 /\ order = "same" /\ doubt = FALSE

\* Somebody comments.
Post ==
    /\ end = "none" /\ mode = "walk" /\ posted < MaxPosted
    /\ posted' = posted + 1
    /\ UNCHANGED <<source, mode, other, page, cursor, got, taken, end, before, order, doubt>>

\* Another caller begins a walk through the same comments, or asks for the page
\* that follows its last one.
AskOther ==
    /\ end = "none" /\ mode = "walk"
    /\ \/ other' = Request(posted, 1, NoCursor)
       \/ /\ other # NoRequest /\ other.page < MaxPages
          /\ \E a \in CrawlerAnswers(other) :
              Usable(a) /\ a.next # NoCursor /\ other' = Request(posted, other.page + 1, a.next)
    /\ UNCHANGED <<source, mode, posted, page, cursor, got, taken, end, before, order, doubt>>

\* Whether a page is older than the one it follows.  A cursor that names a
\* comment leads to the same comments as before.
IsOlder(q) == q.n < taken.n /\ q.cursor.stream # "after"

TakeComments(q, a) ==
    /\ got' = got \union a.items
    /\ taken' = [page |-> page, items |-> a.items, n |-> q.n]
    /\ before' = (IF taken.page = 0 THEN q.n ELSE before)
    /\ order' = (IF taken.page = 0 \/ q.n = taken.n \/ order = "older" THEN order
                 ELSE IF IsOlder(q) THEN "older" ELSE "moved")
    /\ doubt' = (doubt \/ ~a.sure)
    /\ UNCHANGED <<source, mode, posted, other>>

\* The only page that was asked for; its answer may be of any moment.
TakeSingle ==
    /\ end = "none" /\ mode = "single"
    /\ \E q \in Answerable : \E a \in CrawlerAnswers(q) :
        Usable(a) /\ TakeComments(q, a) /\ cursor' = a.next
    /\ end' = "page"
    /\ UNCHANGED page

\* Mutant: the number of pages is looked at when the walk has come to its end.
TakePageUnbounded ==
    /\ end = "none" /\ mode = "walk"
    /\ \E q \in Answerable : \E a \in CrawlerAnswers(q) :
        /\ Usable(a) /\ NextPage(a) # 0 /\ TakeComments(q, a)
        /\ page' = NextPage(a) /\ cursor' = a.next
    /\ UNCHANGED end

\* A page of a walk that goes on.
TakePage ==
    /\ end = "none" /\ mode = "walk" /\ page <= MaxPages
    /\ \E q \in Answerable : \E a \in CrawlerAnswers(q) :
        /\ Usable(a) /\ NextPage(a) # 0 /\ TakeComments(q, a)
        /\ page' = NextPage(a) /\ cursor' = a.next
    /\ UNCHANGED end

\* The last page of a walk; only some sources promise that it was all.
TakeLastPage ==
    /\ end = "none" /\ mode = "walk" /\ page <= MaxPages
    /\ \E q \in Answerable : \E a \in CrawlerAnswers(q) :
        Usable(a) /\ NextPage(a) = 0 /\ TakeComments(q, a)
    /\ end' = IF source \in Promising THEN "complete" ELSE "last"
    /\ UNCHANGED <<page, cursor>>

\* No usable answer (these are kept as well): a walk keeps what it has and says
\* that it is not all.
Refuse ==
    /\ end = "none" /\ (mode = "walk" => page <= MaxPages)
    /\ \E q \in Answerable : \E a \in CrawlerAnswers(q) : ~Usable(a)
    /\ end' = IF got # {} THEN "partial" ELSE "refused"
    /\ UNCHANGED <<source, mode, posted, other, page, cursor, got, taken, before, order, doubt>>

\* A walk of too many pages.
TooManyPages ==
    /\ end = "none" /\ mode = "walk" /\ page > MaxPages
    /\ end' = "refused"
    /\ UNCHANGED <<source, mode, posted, other, page, cursor, got, taken, before, order, doubt>>

\* The caller has its answer.
Answered == end # "none" /\ UNCHANGED commentVars

CommentsNext ==
    \/ Post \/ AskOther \/ TakeSingle \/ TakePage \/ TakeLastPage \/ Refuse \/ TooManyPages
    \/ Answered

CommentsSpec == CommentsInit /\ [][CommentsNext]_commentVars

-----------------------------------------------------------------------------
\* A walk that has reached the last page has every comment that was there when
\* its first page was read, however many were posted meanwhile, whatever pages
\* the source left empty or repeated, and though pages that follow a comment
\* may come from the cache.  There are two exceptions: one of the collectors
\* that look at nothing had a part in it, or a numbered page came from the cache
\* and was older than the page before it (_fetch_all_comments_with_status,
\* _fetch_cached, require_page, checked_list).
WalkHasAll ==
    mode = "walk" /\ end \in {"last", "complete"} /\ ~doubt /\ order # "older" =>
        1 .. before \subseteq got

\* Page p holds the comments of page p, newest or (hot streams) oldest first,
\* and none of them when the work has no such page, whether the walk has got
\* there or the page is asked for by itself, as long as all pages are of one
\* moment; geekpark has them all on page 1.
InPlace ==
    order = "same" /\ ~doubt /\ taken.page > 0 /\ source # "geekpark" =>
        LET i == (taken.page - 1) * Size
        IN  taken.items \subseteq Window(before, i) \/ taken.items \subseteq HotWindow(before, i)
=============================================================================

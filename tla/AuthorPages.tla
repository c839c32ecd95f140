---------------------------- MODULE AuthorPages ----------------------------
(***************************************************************************)
(* The list of an author's works, page after page: DiscoverySession         *)
(* (app/services/author_service.py) over the lists of the platforms        *)
(* (app/crawlers/authors/), as the job of an author walks through it       *)
(* (_discover, _save_page), or a client that asks for one page at a time.  *)
(*                                                                         *)
(* Lists are newest first, and the author goes on publishing.  A list may  *)
(* leave a page empty, send the page before again, or name a position that *)
(* it has named before.  The handle of an author may change hands.         *)
(***************************************************************************)
EXTENDS CommentLists

CONSTANTS
    MaxWorks,      \* works that an author may have
    Owners, None,  \* who a handle may belong to
    MaxRestarts    \* how often a discovery begins anew after it was stopped

VARIABLES
    platform, caller,    \* whose list, and who walks through it
    account,             \* a cookie of weibo.com is there
    listed, first,        \* works on the list now, and when the walk began
    step,                \* where the fetch of a page is
    tries, session,      \* failed attempts; the session, its kind and its age
    position,            \* the cursor of the next page
    passed, pages,       \* seen_cursors, seen_pages
    lastRows,            \* what the page before had
    saved, unsure,       \* the works by list; no code could notice an omission
    outcome, restarts,
    holder, held,        \* who has the handle, and had it since the session began
    stored, candidate,   \* author_identities, and what was read of it
    known,               \* identity_cache of the session
    authors, stale       \* whose works were saved; one had lost the handle before

walkVars == <<position, passed, pages, lastRows, saved, unsure, authors, stale>>
worldVars == <<platform, caller, account, listed, first>>
holderVars == <<holder, held, stored, candidate, known>>
sessionVars == <<step, tries, session, outcome, restarts>>
listVars == <<worldVars, walkVars, holderVars, sessionVars>>

ListsOf(p) ==
    CASE p = "bilibili" -> {"video", "article", "dynamic"}
      [] p = "weibo" -> {"desktop", "mobile"}
      [] OTHER -> {"list"}

ADAPTERS == {"douyin", "kuaishou", "weibo", "bilibili", "xiaohongshu", "toutiao", "sina_blog"}

\* Cursors: a list, with the number of a page or the work before it; 0 is its
\* beginning.  Those of douyin name the author.
CursorAt(list, at) == [list |-> list, at |-> at, author |-> None]
Start == CursorAt("start", 0)
End == CursorAt("end", 0)

ListsTypeOK ==
    /\ platform \in ADAPTERS /\ caller \in {"job", "client"} /\ account \in BOOLEAN
    /\ first \in 0 .. MaxWorks /\ listed \in first .. MaxWorks
    /\ step \in {"ready", "lookup", "verify", "search", "keep", "list"}
    /\ tries \in 0 .. 2
    /\ session \in [open : BOOLEAN, browser : BOOLEAN, since : 0 .. MaxWorks]
    /\ position \in [list : ListsOf(platform) \union {"start", "end"}, at : 0 .. MaxWorks + 1,
                     author : Owners \union {None}]
    /\ End \notin passed /\ (outcome = "done" <=> position = End)
    /\ pages \subseteq (ListsOf(platform) \union {"list"}) \X SUBSET (1 .. listed)
    /\ lastRows \subseteq 1 .. listed
    /\ saved \subseteq ListsOf(platform) \X (1 .. listed)
    /\ outcome \in {"none", "done", "stopped"} /\ restarts \in 0 .. MaxRestarts
    /\ holder \in held /\ held \subseteq Owners /\ authors \subseteq Owners
    /\ {stored, candidate, known} \subseteq Owners \union {None}
    /\ stale \in BOOLEAN /\ unsure \in BOOLEAN

-----------------------------------------------------------------------------
(* What a list answers.  A page is [items, next, sure]. *)

Reading ==
    IF position.list # "start" THEN position.list
    ELSE CASE platform = "bilibili" -> "video"
           [] platform = "weibo" -> IF account THEN "desktop" ELSE "mobile"
           [] OTHER -> "list"

page_number == IF position.at = 0 THEN 1 ELSE position.at
NumberPlace == (page_number - 1) * Size
PlaceNow(n) == IF position.at = 0 THEN 0 ELSE PlaceAfter(n, position.at)

\* require_list: a list that is there may be empty.
RowsOf(n, i) == {Window(n, i), {}, lastRows}

\* A job notices a page that it has saved, unless it is the last one.
Noticed(rows, next) == caller = "job" /\ next # End /\ rows # {} /\ rows = lastRows

Listing(n, i, rows, next) ==
    [items |-> rows, next |-> next, sure |-> rows = Window(n, i) \/ Noticed(rows, next)]

\* A list whose pages follow a work, and that tells whether more follow; the
\* position has to move.
Following(n) ==
    LET i == PlaceNow(n)
        named == {LastOf(n, i)} \union {p.at : p \in {q \in passed : q.list = Reading}}
        nexts == IF Follows(n, i) THEN {CursorAt(Reading, at) : at \in named \ {position.at}} ELSE {End}
    IN  {Listing(n, i, pair[1], pair[2]) : pair \in RowsOf(n, i) \X nexts}

\* A cursor of douyin names the author it was made for.
douyin_works(n) ==
    {IF a.next = End THEN a ELSE [a EXCEPT !.next.author = known] : a \in Following(n)}
xiaohongshu_works(n) == Following(n)
toutiao_works(n) == Following(n)

\* A cursor that is missing ends the list as well.
kuaishou_works(n) ==
    Following(n) \union {[a EXCEPT !.next = End, !.sure = FALSE] : a \in Following(n)}

\* Mutant: the page before is taken for the next one.
weibo_repeated(n) ==
    {[items |-> rows, next |-> IF rows = {} THEN End ELSE CursorAt(Reading, page_number + 1),
      sure |-> rows = Window(n, NumberPlace) \/ (rows = lastRows /\ rows # {})] :
        rows \in {r \in RowsOf(n, NumberPlace) : (r = {} /\ page_number = 1) => n = 0}}

\* Each of the two lists ends with a page without works; an empty first page
\* has to be confirmed, and the page before is not taken for the next one.
weibo_works(n) ==
    {[items |-> rows, next |-> IF rows = {} THEN End ELSE CursorAt(Reading, page_number + 1),
      sure |-> rows = Window(n, NumberPlace)] :
        rows \in {r \in RowsOf(n, NumberPlace) :
                    IF r = {} THEN page_number = 1 => n = 0 ELSE r # lastRows}}

\* Videos, articles and dynamics, one list after the other; the first two tell
\* how many there are.
Next_source(list) == IF list = "video" THEN CursorAt("article", 0) ELSE CursorAt("dynamic", 0)

\* Mutant: an empty page is the end of a list.
Counted_truncated(n) ==
    {[items |-> rows, next |-> IF rows # {} /\ page_number * Size < n THEN CursorAt(Reading, page_number + 1)
                               ELSE Next_source(Reading), sure |-> TRUE] :
        rows \in {Window(n, NumberPlace), {}}}

CountedList(n) ==
    LET next == IF page_number * Size < n THEN CursorAt(Reading, page_number + 1)
                ELSE Next_source(Reading)
    IN  {Listing(n, NumberPlace, rows, next) :
            rows \in {r \in RowsOf(n, NumberPlace) : r = {} => NumberPlace >= n}}

bilibili_works(n) == IF Reading = "dynamic" THEN Following(n) ELSE CountedList(n)

\* Only a page with works is one; the links below it may be missing.
sina_blog_works(n) ==
    LET nexts == IF Follows(n, NumberPlace) THEN {CursorAt("list", page_number + 1), End} ELSE {End}
    IN  {[Listing(n, NumberPlace, pair[1], pair[2])
            EXCEPT !.sure = @ /\ (Follows(n, NumberPlace) => pair[2] # End)] :
            pair \in (RowsOf(n, NumberPlace) \ {{}}) \X nexts}

PageAnswers(n) ==
    CASE platform = "douyin" -> douyin_works(n) [] platform = "kuaishou" -> kuaishou_works(n)
      [] platform = "weibo" -> weibo_works(n) [] platform = "bilibili" -> bilibili_works(n)
      [] platform = "xiaohongshu" -> xiaohongshu_works(n) [] platform = "toutiao" -> toutiao_works(n)
      [] platform = "sina_blog" -> sina_blog_works(n)

\* captured: the browser may have the answer since it was opened.
Captures == session.browser /\ Reading \in {"list", "dynamic"}
Moments ==
    IF Captures THEN {n \in session.since .. listed : n >= position.at} ELSE {listed}

-----------------------------------------------------------------------------
(* Sessions: _open, and the three attempts of _fetch_page *)

Going(place) == outcome = "none" /\ session.open /\ step = place

BROWSER_LISTS == {"douyin", "kuaishou", "xiaohongshu", "toutiao"}

\* With an account, douyin and xiaohongshu are first read without a browser.
Closed(browser) == [open |-> FALSE, browser |-> browser, since |-> 0]
FirstModes ==
    {platform \in BROWSER_LISTS} \union (IF platform \in {"douyin", "xiaohongshu"} THEN {FALSE} ELSE {})

ListsInit ==
    /\ platform \in ADAPTERS /\ caller \in {"job", "client"}
    /\ account \in IF platform = "weibo" THEN BOOLEAN ELSE {FALSE}
    /\ first \in 0 .. MaxWorks /\ listed = first
    /\ step = "ready" /\ tries = 0 /\ session \in {Closed(b) : b \in FirstModes}
    /\ position = Start /\ passed = {} /\ pages = {} /\ lastRows = {}
    /\ saved = {} /\ unsure = FALSE /\ outcome = "none" /\ restarts = 0
    /\ holder \in Owners /\ held = {holder}
    /\ stored \in IF platform = "douyin" THEN Owners \union {None} ELSE {None}
    /\ candidate = None /\ known = None
    /\ authors = {} /\ stale = FALSE

OpenSession ==
    /\ outcome = "none" /\ step = "ready" /\ ~session.open
    /\ session' = [session EXCEPT !.open = TRUE, !.since = listed]
    /\ UNCHANGED <<worldVars, walkVars, holderVars, step, tries, outcome, restarts>>

\* The lease ends soon, or the session is older than 90 seconds.
Rotate ==
    /\ Going("ready")
    /\ session' = [session EXCEPT !.open = FALSE, !.since = 0]
    /\ UNCHANGED <<worldVars, walkVars, holderVars, step, tries, outcome, restarts>>

\* An attempt fails; two failures make some of the lists try a browser.
Switches ==
    /\ tries = 1
    /\ platform \in {"douyin", "xiaohongshu"} \/ (platform = "bilibili" /\ Reading = "dynamic")

AttemptFails ==
    /\ outcome = "none" /\ tries < 2
    /\ tries' = tries + 1 /\ step' = "ready"
    /\ \E browser \in {session.browser} \union (IF Switches THEN {TRUE} ELSE {}) :
        /\ (Switches /\ platform # "douyin") => browser
        /\ session' = Closed(browser)
    /\ UNCHANGED <<worldVars, walkVars, holderVars, outcome, restarts>>

\* The third failure, an error that is not tried again, a cancellation, a
\* timeout, or the loss of the process.
Stop ==
    /\ outcome = "none"
    /\ outcome' = "stopped"
    /\ UNCHANGED <<worldVars, walkVars, holderVars, step, tries, session, restarts>>

\* A new session, from the cursor that is there.
NewSession ==
    /\ session' \in {Closed(b) : b \in FirstModes}
    /\ step' = "ready" /\ tries' = 0
    /\ candidate' = None /\ known' = None /\ held' = {holder}

\* A job is resumed; a client that asks again is where it was before it asked.
ResumeList ==
    /\ outcome = "stopped" /\ caller = "job" /\ restarts < MaxRestarts
    /\ restarts' = restarts + 1
    /\ NewSession /\ outcome' = "none"
    /\ account' \in IF platform = "weibo" THEN BOOLEAN ELSE {FALSE}
    /\ UNCHANGED <<walkVars, platform, caller, listed, first, holder, stored>>

-----------------------------------------------------------------------------
(* Who the author is: resolve_douyin, resolve_xiaohongshu *)

Handled == {"douyin", "xiaohongshu"}
Resolves == platform \in Handled /\ known = None

BeginPage ==
    /\ Going("ready")
    /\ step' = IF ~Resolves THEN "list" ELSE IF platform = "douyin" THEN "lookup" ELSE "search"
    /\ UNCHANGED <<worldVars, walkVars, holderVars, tries, session, outcome, restarts>>

Lookup ==
    /\ Going("lookup")
    /\ candidate' = stored
    /\ step' = IF stored = None THEN "search" ELSE "verify"
    /\ UNCHANGED <<worldVars, walkVars, holder, held, stored, known, tries, session, outcome, restarts>>

\* Mutant: what is stored is taken as it is.
VerifyNothing ==
    /\ Going("verify")
    /\ known' = candidate /\ step' = "keep"
    /\ UNCHANGED <<worldVars, walkVars, holder, held, stored, candidate, tries, session, outcome, restarts>>

\* The profile, or a work, of the stored author still shows the handle.
Verify ==
    /\ Going("verify")
    /\ IF holder = candidate
       THEN known' = candidate /\ step' = "keep" /\ UNCHANGED stored
       ELSE stored' = None /\ step' = "search" /\ UNCHANGED known
    /\ UNCHANGED <<worldVars, walkVars, holder, held, candidate, tries, session, outcome, restarts>>

\* A browser may have the answer since it was opened.
Search ==
    /\ Going("search")
    /\ known' \in IF session.browser THEN held ELSE {holder}
    /\ step' = IF platform = "douyin" THEN "keep" ELSE "list"
    /\ UNCHANGED <<worldVars, walkVars, holder, held, stored, candidate, tries, session, outcome, restarts>>

Keep ==
    /\ Going("keep")
    /\ stored' = known /\ step' = "list"
    /\ UNCHANGED <<worldVars, walkVars, holder, held, candidate, known, tries, session, outcome, restarts>>

-----------------------------------------------------------------------------
(* Pages: fetch_page, _discover, _save_page *)

\* Mutant: the cursor may be of another author.
AnyCursor == position.list = "desktop" => account

\* douyin refuses the cursor of another author; a list of weibo.com goes on
\* with an account only.
OwnCursor ==
    /\ platform = "douyin" => position.author \in {None, known}
    /\ position.list = "desktop" => account

Source == IF platform = "bilibili" THEN Reading ELSE "list"

\* Mutant: only cursors are compared.
RepeatedCursor(a) == a.next # End /\ a.next \in passed

\* _discover and _save_page: a cursor or a page that was there before.
Repeated(a) ==
    a.next # End /\ (a.next \in passed \/ (a.items # {} /\ <<Source, a.items>> \in pages))

Author == IF platform \in Handled THEN known ELSE holder

Take(a) ==
    /\ saved' = saved \union {<<Reading, w>> : w \in a.items}
    /\ authors' = authors \union (IF a.items = {} THEN {} ELSE {Author})
    /\ stale' = (stale \/ Author \notin held)
    /\ unsure' = (unsure \/ ~a.sure)
    /\ position' = a.next
    /\ passed' = IF a.next = End THEN passed ELSE passed \union {a.next}
    /\ pages' = IF a.items = {} THEN pages ELSE pages \union {<<Source, a.items>>}
    /\ lastRows' = IF a.next.list = Reading THEN a.items ELSE {}
    /\ outcome' = IF a.next = End THEN "done" ELSE "none"

\* A job goes on in its session.
SaveListPage ==
    /\ Going("list") /\ caller = "job" /\ OwnCursor
    /\ \E n \in Moments : \E a \in PageAnswers(n) : ~Repeated(a) /\ Take(a)
    /\ step' = "ready" /\ tries' = 0
    /\ UNCHANGED <<worldVars, holderVars, session, restarts>>

\* A client gets the page, and asks for the next one in a session of its own.
ReturnPage ==
    /\ Going("list") /\ caller = "client" /\ OwnCursor
    /\ \E n \in Moments : \E a \in PageAnswers(n) : Take(a)
    /\ NewSession
    /\ UNCHANGED <<worldVars, holder, stored, restarts>>

\* The job does not go round in circles.
RefuseRepeated ==
    /\ Going("list") /\ caller = "job" /\ OwnCursor
    /\ \E n \in Moments : \E a \in PageAnswers(n) : Repeated(a)
    /\ outcome' = "stopped"
    /\ UNCHANGED <<worldVars, walkVars, holderVars, step, tries, session, restarts>>

-----------------------------------------------------------------------------
(* The author, the handle, and other discoveries of it *)

Publish ==
    /\ outcome = "none" /\ listed < MaxWorks
    /\ listed' = listed + 1
    /\ UNCHANGED <<platform, caller, account, first, walkVars, holderVars, sessionVars>>

ChangeHands ==
    /\ outcome = "none" /\ platform \in Handled
    /\ holder' \in Owners \ {holder} /\ held' = held \union {holder'}
    /\ UNCHANGED <<worldVars, walkVars, stored, candidate, known, sessionVars>>

OtherDiscovery ==
    /\ outcome = "none" /\ platform = "douyin"
    /\ stored' \in Owners \ {stored}
    /\ UNCHANGED <<worldVars, walkVars, holder, held, candidate, known, sessionVars>>

ListEnded ==
    /\ outcome \in {"done", "stopped"}
    /\ outcome = "stopped" => caller = "client" \/ restarts = MaxRestarts
    /\ UNCHANGED listVars

ListsNext ==
    \/ OpenSession \/ Rotate \/ AttemptFails \/ Stop \/ ResumeList
    \/ BeginPage \/ Lookup \/ Verify \/ Search \/ Keep
    \/ SaveListPage \/ ReturnPage \/ RefuseRepeated
    \/ Publish \/ ChangeHands \/ OtherDiscovery \/ ListEnded

ListsSpec == ListsInit /\ [][ListsNext]_listVars

-----------------------------------------------------------------------------
\* A walk that has come to the end of the lists has every work that was on them
\* when it began, however the author published meanwhile, sessions were
\* exchanged, the walk was stopped and resumed, pages were repeated or left
\* empty, unless none of the checks could tell (_discover, _save_page, and the
\* checks of app/crawlers/authors/).
ListHasAll ==
    (outcome = "done" /\ ~unsure /\ Cardinality(authors) <= 1) =>
        LET Has(list) == \A w \in 1 .. first : <<list, w>> \in saved
        IN  IF platform = "weibo" THEN \E list \in ListsOf("weibo") : Has(list)
            ELSE \A list \in ListsOf(platform) : Has(list)

\* Works are only saved of an author who has had the handle since the session
\* began, whatever identity was stored before or by others; and a list of
\* douyin is of one author from its first page to its last, though the handle
\* has changed hands between two sessions (resolve_douyin, the sec_uid of a
\* cursor).
OneAuthor ==
    ~stale /\ (platform = "douyin" => Cardinality(authors) <= 1)
=============================================================================

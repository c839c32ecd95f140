-------------------------- MODULE PlatformComments --------------------------
(***************************************************************************)
(* The comments of the platforms with a collector of their own             *)
(* (app/crawlers/platforms/), and what the browser adds to them            *)
(* (app/crawlers/browser_fallback.py): as in PublisherComments, one        *)
(* definition per source, the set of answers it may give to request q.     *)
(***************************************************************************)
EXTENDS CommentLists

-----------------------------------------------------------------------------
(* sohu.py: it goes by the page. *)

sohu(q) ==
    Refused \union Advancing(Numbers(ByPage(q), "mark"), Cursor("page", q.page))

\* A thread that nobody has started is not an empty one.
fetch_auto_article(q) == {Unavailable} \union sohu(q)

\* The comments follow a cursor, and the page tells whether more follow.
fetch_client_article(q) ==
    LET i == AfterPlace(q)
        nexts == IF q.page * Size < q.n
                 THEN {q.cursor, Cursor("after", LastOf(q.n, i))} \ {NoCursor}
                 ELSE {NoCursor}
    IN  Refused \union
        Advancing({Page(q.n, pair[1], pair[2], pair[1] = Window(q.n, i) \/ pair[2] # NoCursor) :
                       pair \in {Window(q.n, i), {}} \X nexts}, q.cursor)

(* xueqiu.py *)

xueqiu(q) == Chained(q, "mark")

(* toutiao.py, bytedance_publishers.py, dongchedi.py, netease.py and        *)
(* baidu_publishers.py: the source says how far the offset moves.          *)

Offset(q) == Cursor("offset", OffsetPlace(q))

parse_comment_page(q) == Advancing(Offsets(q), Offset(q))
fetch_comment_page(q) == Refused \union parse_comment_page(q)

\* ixigua asks for its page first and reads the same list.
weitoutiao(q) == fetch_comment_page(q)

\* The request may be called illegal; a shared link may lead to weitoutiao.
toutiao(q) == {Unavailable} \union fetch_comment_page(q) \union weitoutiao(q)

dongchedi(q) == Refused \union Advancing(Offsets(q), Offset(q))
netease(q) == Refused \union Checked(Offsets(q), q.n, Offset(q), OffsetPlace(q) = 0)
baijiahao(q) == Refused \union Advancing(Offsets(q), Offset(q))

(* haokan.py: an answer without a list, or without its mark, is a page that *)
(* continues.                                                              *)

haokan(q) ==
    Refused \union
    {[Answer("partial", {}, Cursor("page", q.page + 1)) EXCEPT !.sure = FALSE]} \union
    Unseen(Numbers(ByPage(q), "mark"), q.n, (q.page - 1) * Size)

(* douyin.py: an empty body and an error in the body are answers without    *)
(* comments that end there, and so is a page that lacks its cursor.        *)

parse_comments(q) ==
    LET i == AfterPlace(q)
    IN  Unseen(Sent(q.n, i, "mark", NoCursor, Cursor("after", LastOf(q.n, i)))
                   \union {Page(q.n, Window(q.n, i), NoCursor, TRUE)}, q.n, i)

douyin(q) ==
    Refused \union {[Blocked EXCEPT !.final = TRUE]}
            \union {[Answer("partial", {}, NoCursor) EXCEPT !.sure = FALSE]}
            \union (IF ReachesPage(q) THEN parse_comments(q) ELSE OutOfReach(q))

-----------------------------------------------------------------------------
(* weibo.py: the hot stream, in an order of its own (here the oldest       *)
(* first), and numbered pages.                                             *)

HotWindow(n, i) == {c \in 1 .. n : c - 1 \in i .. i + Size - 1}

\* The page of an article, a post or a video leads to its comments.
fetch_public_stats(q) == Refused \union {Unavailable}

\* Neither stream checks its pages.
Stream(n, i, window, there) ==
    {Page(n, pair[1], pair[2], pair[1] = window /\ (Follows(n, i) => pair[2] # NoCursor)) :
        pair \in {window, {}} \X (IF Follows(n, i) THEN {NoCursor, there} ELSE {NoCursor})}

\* The hot stream is gone through from its first page, whatever the cursor.
parse_hot_comments(q) ==
    LET i == (q.page - 1) * Size
    IN  IF q.page = 1 \/ i < q.n
        THEN Stream(q.n, i, HotWindow(q.n, i), Cursor("hot", q.page + 1))
        ELSE OutOfReach(q)

parse_numbered_comments(q) ==
    LET i == (q.page - 1) * Size
    IN  Stream(q.n, i, Window(q.n, i), Cursor("page", q.page + 1))

\* Both streams say that there is nothing this visitor may see.
NothingVisible(q) ==
    {[Answer("partial", {}, NoCursor) EXCEPT !.final = TRUE, !.sure = (q.n = 0)]}

Numbering(q) == q.cursor.stream = "page"

\* Mutant: the numbered pages take over when the hot stream fails later.
weibo_mixed(q) ==
    fetch_public_stats(q) \union parse_numbered_comments(q) \union parse_hot_comments(q)

\* Only the first step of the hot stream may be replaced by numbered pages, and
\* these go on as such.
weibo(q) ==
    fetch_public_stats(q) \union
    IF Numbering(q)
    THEN IF q.cursor.at = q.page THEN parse_numbered_comments(q) ELSE {}
    ELSE parse_hot_comments(q) \union
         IF q.cursor = NoCursor THEN parse_numbered_comments(q) \union NothingVisible(q)
         ELSE {}

-----------------------------------------------------------------------------
(* kuaishou.py, bilibili.py and xiaohongshu.py.  Other collectors of the   *)
(* same work (the browser, the older interface) number their pages, and a  *)
(* cursor of theirs may come back to the collector that knows offsets:     *)
(* what the source does with it is unknown.                                *)

Foreign(q) ==
    {Page(q.n, Window(q.n, i), NoCursor, FALSE) : i \in 0 .. q.n}

\* Without the short-lived cookie of a guest the browser has to help.
kuaishou(q) ==
    Refused \union {Unsupported} \union
    IF q.cursor.stream = "browser" THEN Foreign(q)
    ELSE IF ReachesPage(q) THEN parse_comments(q)
    ELSE OutOfReach(q)

\* The older interface has numbered pages and another order; nothing tells a
\* walk that has begun with the other one.
fetch_legacy_comments(q) ==
    LET i == (q.page - 1) * Size
    IN  {[a EXCEPT !.sure = a.sure /\ q.page = 1] :
            a \in Stream(q.n, i, HotWindow(q.n, i), Cursor("page", q.page + 1))}

fetch_comments(q) ==
    Refused \union fetch_legacy_comments(q) \union
    IF q.cursor.stream \in {"browser", "page"} THEN Foreign(q)
    ELSE IF ReachesPage(q) THEN parse_comments(q)
    ELSE OutOfReach(q)

\* A video may be hidden, and so may an opus; an article is asked for its
\* comments at once.
fetch_video(q) == Refused \union {Unavailable} \union fetch_comments(q)
fetch_article(q) == fetch_comments(q)
fetch_opus_detail(q) == Refused \union {Unavailable}
fetch_opus(q) == fetch_opus_detail(q) \union fetch_comments(q)
bilibili(q) == fetch_video(q) \union fetch_article(q) \union fetch_opus(q)

\* With an account: a page that was read is an answer for good, and so is a
\* refusal of the account.
xiaohongshu(q) ==
    {Failed, Unsupported, [Blocked EXCEPT !.final = TRUE]} \union
    {[a EXCEPT !.final = TRUE] :
        a \in IF q.cursor.stream = "browser" THEN Foreign(q)
              ELSE IF ReachesPage(q) THEN Advancing(Chain(q, "mark"), q.cursor)
              ELSE OutOfReach(q)}

\* Without one, only the browser is left.
xiaohongshu_guest(q) == {Unsupported}

-----------------------------------------------------------------------------
(* browser_fallback.py *)

Browsing(q) == Cursor("browser", q.page + 1)

\* Nothing of use was seen: a challenge, an error, or neither.
NothingSeen == {Failed, Blocked, Unsupported}

\* _parse_responses runs the collector again on the page, by the page.
browser_rerun(answers) == NothingSeen \union answers

\* _kuaishou_guest_payload goes through the pages by itself; what the page has
\* loaded by itself only counts as the first one.
browser_kuaishou(q) ==
    LET i == (q.page - 1) * Size
    IN  NothingSeen \union
        IF q.n = 0 THEN {Zero}
        ELSE IF i >= q.n THEN {}
        ELSE {Page(q.n, Window(q.n, i), IF Follows(q.n, i) THEN Browsing(q) ELSE NoCursor, TRUE)}
             \union (IF q.page = 1 THEN {Page(q.n, Window(q.n, 0), Browsing(q), TRUE)} ELSE {})

\* The comments that the page has loaded are the first ones, whichever page was
\* asked for, or only its counters are seen; any comment announces a next page.
browser_generic(q) ==
    NothingSeen \union
    {Page(q.n, {}, NoCursor, q.n = 0)} \union
    (IF q.n = 0 THEN {} ELSE {Page(q.n, Window(q.n, 0), Browsing(q), q.page = 1)})

\* Guests of xiaohongshu see the first page; the page says whether more follow.
browser_xiaohongshu(q) ==
    browser_generic(q) \union
    (IF q.page > 1 THEN {Unsupported}
     ELSE {Page(q.n, Window(q.n, 0), NoCursor, ~Follows(q.n, 0))})

-----------------------------------------------------------------------------
(* A work of sohu is an article, an article on cars, or one of its client. *)

Platforms ==
    {"sohu", "sohu_auto", "sohu_client", "xueqiu", "weitoutiao", "ixigua", "toutiao", "dongchedi",
     "netease", "baijiahao", "haokan", "douyin", "weibo", "kuaishou", "bilibili",
     "xiaohongshu", "xiaohongshu_guest"}

PlatformAnswers(s, q) ==
    CASE s = "sohu" -> sohu(q) [] s = "sohu_auto" -> fetch_auto_article(q)
      [] s = "sohu_client" -> fetch_client_article(q) [] s = "xueqiu" -> xueqiu(q)
      [] s \in {"weitoutiao", "ixigua"} -> weitoutiao(q)
      [] s = "toutiao" -> toutiao(q)
      [] s = "dongchedi" -> dongchedi(q) [] s = "netease" -> netease(q)
      [] s = "baijiahao" -> baijiahao(q) [] s = "haokan" -> haokan(q)
      [] s = "douyin" -> douyin(q) [] s = "weibo" -> weibo(q)
      [] s = "kuaishou" -> kuaishou(q) [] s = "bilibili" -> bilibili(q)
      [] s = "xiaohongshu" -> xiaohongshu(q) [] s = "xiaohongshu_guest" -> xiaohongshu_guest(q)

\* The page may say that the article of toutiao is gone.
BrowserAnswers(s, q) ==
    CASE s = "toutiao" -> {Unavailable} \union browser_rerun(toutiao(ByPage(q)))
      [] s \in {"weitoutiao", "xueqiu", "sohu", "sohu_auto", "sohu_client"} ->
            browser_rerun(PlatformAnswers(s, ByPage(q)))
      [] s \in {"haokan", "bilibili"} -> browser_generic(q)
      [] s = "kuaishou" -> browser_kuaishou(q)
      [] s \in {"xiaohongshu", "xiaohongshu_guest"} -> browser_xiaohongshu(q)
=============================================================================

------------------------- MODULE PublisherComments -------------------------
(***************************************************************************)
(* The comments of the publishers that extended_publishers.fetch knows     *)
(* (app/crawlers/platforms/): one definition per source, the set of        *)
(* answers it may give to request q.  A check that fails is among the      *)
(* refusals; fetching and parsing are left out.                            *)
(***************************************************************************)
EXTENDS CommentLists

-----------------------------------------------------------------------------
(* public_news.py *)

\* The next page is asked for after every comment that came.
gelonghui(q) == Chained(q, "empty")
yidian(q) == Chained(q, "length")
nowcoder(q) == Numbered(q, "mark")
zaker(q) == Chained(q, "mark")

\* The last page is the one that is not full, and may be empty.
ifeng(q) == Refused \union Counted(Numbers(q, "length"), q.n, PageOf(q) = 1)
dayu(q) == Chained(q, "either")
ximalaya(q) == Numbered(q, "mark")

(* regional_news.py *)

shobserver(q) == Article \union Chained(q, "length")
dingnews(q) == Article \union zero_or_unavailable(q)
thepaper(q) == Numbered(q, "mark")
yzwb(q) == Article \union zero_or_unavailable(q)

(* article_communities.py *)

guancha(q) == Article \union zero_or_unavailable(q)
jike(q) == Article \union zero_or_unavailable(q)
chemm(q) == Article \union zero_or_unavailable(q)
ijiwei(q) == Article \union Chained(q, "length")
jianshu(q) == Article \union zero_or_unavailable(q)

\* All comments at once, as the first page.
geekpark(q) ==
    Article \union {Page(q.n, IF AtFirst(q) THEN 1 .. q.n ELSE {}, NoCursor, TRUE)}

\* The count of the comments is not among the counters.
tidenews(q) == Article
acfun(q) == Article \union Numbered(q, "mark")
how42(q) == Article \union zero_or_unavailable(q)
ql1d(q) == Article \union zero_or_unavailable(q)

(* publisher_pages.py *)

donews(q) == Article
growthhk(q) == Article \union zero_or_unavailable(q)
ofweek(q) == Refused \union zero_or_unavailable(q)
icswb(q) == Article
d1ev(q) == Numbered(q, "mark")
mydigit(q) == Numbered(q, "mark")
ichaoqi(q) == Article \union zero_or_unavailable(q)
guanhai(q) == Article

(* car_news.py *)

pcauto(q) == Numbered(q, "mark")
news18(q) == Refused \union Counted(Numbers(q, "empty"), q.n, PageOf(q) = 1)
dripcar(q) == Refused \union Counted(Numbers(q, "empty"), q.n, PageOf(q) = 1)

\* The comments on the article's own page, and no further ones.
qctt(q) ==
    Article \union
    IF ~AtFirst(q) THEN {}
    ELSE {IF q.n = 0 THEN Zero ELSE Page(q.n, Window(q.n, 0), NoCursor, ~Follows(q.n, 0))}
cheshi(q) == Numbered(q, "mark")

(* more_car_news.py *)

chooseauto(q) == Numbered(q, "mark")
qcwp(q) == Numbered(q, "mark")
maiche(q) == {Unavailable}

\* The old site's articles are maiche's.
buycar(q) == maiche(q) \union Numbered(q, "mark")

(* tonghuashun.py: comments may be closed, or some of them filtered out. *)

comment_total(q) == Article \union zero_or_unavailable(q)
news_10jqka(q) == Article \union comment_total(q)
tonghuashun(q) == news_10jqka(q) \union Refused \union comment_total(q)

(* A module of its own each *)

csdn(q) == {Unavailable}
kr36(q) == Article \union zero_or_unavailable(q)
zol(q) == Numbered(q, "mark")

\* Its hint may say that comments are no longer shown, or need a login.
ithome(q) == {Unavailable} \union Chained(q, "empty")

\* Comments may be closed.
smzdm(q) == {Unavailable} \union Chained(q, "mark")
qq_news(q) == {Unavailable} \union Chained(q, "mark")

\* All comments of a page may be visible to their authors only.
xcar(q) == {Unavailable} \union Numbered(q, "mark")

\* article_state: deleted, or closed for comments.
kuai(q) == {Unavailable} \union Numbered(q, "mark")
sina_community(q) == Numbered(q, "mark")

\* parse_comments, and the walk over its pages with either transport.
zhihu_page(q) == Checked(Chain(q, "mark"), q.n, q.cursor, AtFirst(q))
zhihu(q) == Refused \union (IF ReachesPage(q) THEN zhihu_page(q) ELSE OutOfReach(q))

\* Numbered pages, whose cursor also holds a time: they are only reached one
\* after the other.
yiche(q) == IF ReachesPage(q) THEN Numbered(q, "mark") ELSE Refused \union OutOfReach(q)
eastmoney(q) == Numbered(q, "mark")

\* An article, or a page without comments at all.
autohome(q) == {Unavailable} \union Followed(q)

\* A thread of the forum: an empty page may have a link to the next one.
fetch_forum(q) ==
    Article \union
    Unseen(Counted(Numbers(q, "mark"), q.n, PageOf(q) = 1), q.n, PagePlace(q))

\* It goes by the page and never looks at the cursor, the count or an empty page.
sina(q) == Refused \union Numbers(ByPage(q), "length")

qq_stock(q) == Followed(q)
qq_stock_community(q) == Followed(q)

-----------------------------------------------------------------------------
(* The publishers that share a collector (those of sina, of eastmoney and  *)
(* of ifeng, for example) are one source here, and a collector with two    *)
(* kinds of work is two.                                                   *)

Publishers ==
    {"gelonghui", "yidian", "nowcoder", "zaker", "ifeng", "dayu", "ximalaya",
     "shobserver", "dingnews", "thepaper", "yzwb", "guancha", "jike", "chemm", "ijiwei",
     "jianshu", "geekpark", "tidenews", "acfun", "how42", "ql1d", "donews", "growthhk",
     "ofweek", "icswb", "d1ev", "mydigit", "ichaoqi", "guanhai", "pcauto", "news18",
     "dripcar", "qctt", "cheshi", "chooseauto", "qcwp", "buycar", "tonghuashun", "csdn",
     "kr36", "zol", "ithome", "smzdm", "qq_news", "xcar", "kuai", "sina_community",
     "zhihu", "yiche", "eastmoney", "autohome", "autohome_forum", "sina", "qq_stock",
     "qq_stock_community"}

PublisherAnswers(s, q) ==
    CASE s = "gelonghui" -> gelonghui(q) [] s = "yidian" -> yidian(q)
      [] s = "nowcoder" -> nowcoder(q) [] s = "zaker" -> zaker(q) [] s = "ifeng" -> ifeng(q)
      [] s = "dayu" -> dayu(q) [] s = "ximalaya" -> ximalaya(q)
      [] s = "shobserver" -> shobserver(q) [] s = "dingnews" -> dingnews(q)
      [] s = "thepaper" -> thepaper(q) [] s = "yzwb" -> yzwb(q)
      [] s = "guancha" -> guancha(q) [] s = "jike" -> jike(q) [] s = "chemm" -> chemm(q)
      [] s = "ijiwei" -> ijiwei(q) [] s = "jianshu" -> jianshu(q)
      [] s = "geekpark" -> geekpark(q) [] s = "tidenews" -> tidenews(q)
      [] s = "acfun" -> acfun(q) [] s = "how42" -> how42(q) [] s = "ql1d" -> ql1d(q)
      [] s = "donews" -> donews(q) [] s = "growthhk" -> growthhk(q)
      [] s = "ofweek" -> ofweek(q) [] s = "icswb" -> icswb(q) [] s = "d1ev" -> d1ev(q)
      [] s = "mydigit" -> mydigit(q) [] s = "ichaoqi" -> ichaoqi(q)
      [] s = "guanhai" -> guanhai(q) [] s = "pcauto" -> pcauto(q)
      [] s = "news18" -> news18(q) [] s = "dripcar" -> dripcar(q) [] s = "qctt" -> qctt(q)
      [] s = "cheshi" -> cheshi(q) [] s = "chooseauto" -> chooseauto(q)
      [] s = "qcwp" -> qcwp(q) [] s = "buycar" -> buycar(q)
      [] s = "tonghuashun" -> tonghuashun(q) [] s = "csdn" -> csdn(q)
      [] s = "kr36" -> kr36(q) [] s = "zol" -> zol(q) [] s = "ithome" -> ithome(q)
      [] s = "smzdm" -> smzdm(q) [] s = "qq_news" -> qq_news(q) [] s = "xcar" -> xcar(q)
      [] s = "kuai" -> kuai(q) [] s = "sina_community" -> sina_community(q)
      [] s = "zhihu" -> zhihu(q) [] s = "yiche" -> yiche(q)
      [] s = "eastmoney" -> eastmoney(q) [] s = "autohome" -> autohome(q)
      [] s = "autohome_forum" -> fetch_forum(q) [] s = "sina" -> sina(q)
      [] s = "qq_stock" -> qq_stock(q) [] s = "qq_stock_community" -> qq_stock_community(q)
=============================================================================

------------------------- MODULE CommentPagesProofs -------------------------
(***************************************************************************)
(* The pages of comments, for every size of a page, number of comments and *)
(* of pages.  What is proved of every collector is that its answers are    *)
(* Sound: the next request begins where the page ends or before, and a     *)
(* page that is taken without doubt is the whole of what is there.  The    *)
(* walk then has, before each request, all comments that are behind it and *)
(* all that the last page was too old to have (Collected), and at the end  *)
(* all that there were.                                                    *)
(***************************************************************************)
EXTENDS CommentPages, FiniteSetTheorems, TLAPS

\* What the constants are.
Bounds == Size \in Nat \ {0} /\ MaxPosted \in Nat /\ MaxPages \in Nat

-----------------------------------------------------------------------------
(* Requests and answers *)

\* The streams that the cursors of a source are of.
AfterSources ==
    {"gelonghui", "yidian", "zaker", "dayu", "shobserver", "ijiwei", "ithome", "smzdm", "qq_news",
     "zhihu", "autohome", "qq_stock", "qq_stock_community", "sohu_client", "xueqiu", "douyin",
     "kuaishou", "bilibili", "xiaohongshu"}
PageSources ==
    {"nowcoder", "ifeng", "ximalaya", "thepaper", "acfun", "d1ev", "mydigit", "pcauto", "news18",
     "dripcar", "cheshi", "chooseauto", "qcwp", "buycar", "zol", "xcar", "kuai", "sina_community",
     "yiche", "eastmoney", "autohome_forum", "sina", "sohu", "sohu_auto", "haokan", "weibo",
     "bilibili"}
OffsetSources == {"weitoutiao", "ixigua", "toutiao", "dongchedi", "netease", "baijiahao"}
BrowserSources == {"haokan", "kuaishou", "bilibili", "xiaohongshu", "xiaohongshu_guest"}

\* Where a request begins.
ByPlace(q) == (q.page - 1) * Size
Place(q) == IF q.cursor.stream = "after" THEN PlaceAfter(q.n, q.cursor.at) ELSE ByPlace(q)

\* A request to source s that its collectors can have led to.
Fits(s, q) ==
    /\ q = Request(q.n, q.page, q.cursor)
    /\ q.n \in 0 .. MaxPosted /\ q.page \in Nat \ {0} /\ q.cursor \in Cursors
    /\ q.cursor.stream = "none" => q.cursor = NoCursor
    /\ q.cursor.stream = "page" => s \in PageSources /\ q.cursor.at = q.page
    /\ q.cursor.stream = "hot" => s = "weibo" /\ q.cursor.at = q.page
    /\ q.cursor.stream = "browser" => s \in BrowserSources /\ q.cursor.at = q.page
    /\ q.cursor.stream = "offset" => s \in OffsetSources /\ q.cursor.at = ByPlace(q)
    /\ q.cursor.stream = "after" =>
         s \in AfterSources /\ q.cursor.at \in 1 .. q.n /\ (q.cursor.at = 1 \/ Place(q) >= ByPlace(q))

\* It begins where its page does; behind the last comment it hardly matters.
Exact(q) == q.cursor.stream = "after" => q.cursor.at = 1 \/ Place(q) = ByPlace(q)

\* The comments that a walk has behind it at a request.  The older interface of
\* bilibili has another order: nothing is known behind its cursor.
Behind(s, q) ==
    {c \in 1 .. q.n :
        IF s = "bilibili" /\ q.cursor.stream = "page" THEN FALSE
        ELSE IF q.cursor.stream = "hot" THEN c - 1 < ByPlace(q)
        ELSE q.n - c < Place(q)}

\* A page that is asked for by itself says little at the two sources whose first
\* page decides.
Begun(s, q) == s \in {"geekpark", "weibo"} /\ q.cursor = NoCursor => q.page = 1

NextRequest(q, a) == Request(q.n, q.page + 1, a.next)

\* The comments of an answer are there, and its cursor fits.
Fitting(s, q, a) ==
    /\ a.items \subseteq 1 .. q.n /\ a.sure \in BOOLEAN
    /\ a.next # NoCursor => Fits(s, NextRequest(q, a)) /\ (Exact(q) => Exact(NextRequest(q, a)))

\* Its comments are those of the page.
OnPage(q, a) ==
    a.items \subseteq Window(q.n, ByPlace(q)) \/ a.items \subseteq HotWindow(q.n, ByPlace(q))

\* Nothing is left out up to the next request, or at all.
Whole(s, q, a) ==
    (IF a.next = NoCursor THEN 1 .. q.n ELSE Behind(s, NextRequest(q, a)))
        \subseteq Behind(s, q) \union a.items

Sound(s, q, a) ==
    /\ Fitting(s, q, a)
    /\ a.sure /\ Exact(q) /\ s # "geekpark" => OnPage(q, a)
    /\ a.sure /\ Begun(s, q) => Whole(s, q, a)

-----------------------------------------------------------------------------
(* The invariant *)

\* The next request, if there were n comments.
At(n) == Request(n, page, cursor)

Requested == end = "none" => \A n \in taken.n .. posted : Fits(source, At(n))
OtherRequested == other = NoRequest \/ Fits(source, other)
Exactly == end = "none" /\ order = "same" => Exact(At(before)) /\ (taken.page > 0 => taken.n = before)
FirstOne ==
    end = "none" => (mode = "walk" /\ cursor = NoCursor => page = 1) /\ (taken.page = 0 => cursor = NoCursor)

\* What is behind the next request, and what was posted since the last page.
Collected ==
    end = "none" /\ mode = "walk" /\ ~doubt /\ order # "older" =>
        \A c \in 1 .. before : (c <= taken.n => c \in Behind(source, At(taken.n))) => c \in got

IInv ==
    /\ CommentsTypeOK /\ Requested /\ OtherRequested /\ Exactly /\ FirstOne /\ Collected
    /\ WalkHasAll /\ InPlace

-----------------------------------------------------------------------------
(* Pages *)

LEMMA Multiples ==
    ASSUME NEW p \in Nat \ {0}, NEW s \in Nat \ {0}
    PROVE  /\ (p - 1) * s \in Nat /\ p * s = (p - 1) * s + s /\ ((p + 1) - 1) * s = (p - 1) * s + s
           /\ p = 1 => (p - 1) * s = 0
           /\ p > 1 => (p - 1) * s > 0
  OBVIOUS

\* A page has the comments from its place on, and what it does not have is
\* before it or follows.
LEMMA Windows ==
    ASSUME Bounds, NEW n \in Nat, NEW i \in Nat
    PROVE  /\ Window(n, i) \subseteq 1 .. n
           /\ i < n => Window(n, i) # {}
           /\ Window(n, i) # {} => i < n
           /\ \A c \in 1 .. n : n - c < i + Size => n - c < i \/ c \in Window(n, i)
           /\ \A c \in Window(n, i) : n - c < i + Size
           /\ Follows(n, i) => i < n /\ LastOf(n, i) \in 1 .. n /\ PlaceAfter(n, LastOf(n, i)) = i + Size
           /\ ~Follows(n, i) => /\ \A c \in 1 .. n : n - c < i + Size
                                /\ LastOf(n, i) = 1 /\ PlaceAfter(n, LastOf(n, i)) = n
<1>1. Window(n, i) \subseteq 1 .. n
  BY DEF Window
<1>2. ASSUME i < n PROVE Window(n, i) # {}
  <2>1. n - i \in 1 .. n /\ n - (n - i) \in i .. i + Size - 1
    BY <1>2 DEF Bounds
  <2>2. QED
    BY <2>1 DEF Window
<1>3. ASSUME Window(n, i) # {} PROVE i < n
  <2>1. PICK c \in 1 .. n : n - c \in i .. i + Size - 1
    BY <1>3 DEF Window
  <2>2. QED
    BY <2>1
<1>4. ASSUME NEW c \in 1 .. n, n - c < i + Size PROVE n - c < i \/ c \in Window(n, i)
  BY <1>4 DEF Window, Bounds
<1>5. ASSUME NEW c \in Window(n, i) PROVE n - c < i + Size
  BY <1>5 DEF Window, Bounds
<1>6. ASSUME Follows(n, i)
      PROVE  i < n /\ LastOf(n, i) \in 1 .. n /\ PlaceAfter(n, LastOf(n, i)) = i + Size
  BY <1>6 DEF Follows, LastOf, PlaceAfter, Bounds
<1>7. ASSUME ~Follows(n, i)
      PROVE  /\ \A c \in 1 .. n : n - c < i + Size
             /\ LastOf(n, i) = 1 /\ PlaceAfter(n, LastOf(n, i)) = n
  BY <1>7 DEF Follows, LastOf, PlaceAfter, Bounds
<1>8. QED
  BY <1>1, <1>2, <1>3, <1>4, <1>5, <1>6, <1>7

\* A page that another one follows is full.
LEMMA FullPage ==
    ASSUME Bounds, NEW n \in Nat, NEW i \in Nat, Follows(n, i)
    PROVE  Cardinality(Window(n, i)) = Size
<1>1. n - i - Size + 1 \in Int /\ n - i \in Int /\ n - i - Size + 1 >= 1 /\ n - i <= n
  BY DEF Follows, Bounds
<1>2. Window(n, i) = (n - i - Size + 1) .. (n - i)
  <2>1. ASSUME NEW c \in 1 .. n, n - c \in i .. i + Size - 1
        PROVE  c \in (n - i - Size + 1) .. (n - i)
    BY <2>1 DEF Bounds
  <2>2. ASSUME NEW c \in (n - i - Size + 1) .. (n - i)
        PROVE  c \in 1 .. n /\ n - c \in i .. i + Size - 1
    BY <1>1, <2>2 DEF Bounds
  <2>3. QED
    BY <2>1, <2>2 DEF Window
<1>3. Cardinality((n - i - Size + 1) .. (n - i)) = (n - i) - (n - i - Size + 1) + 1
  BY <1>1, FS_Interval DEF Bounds, Follows
<1>4. QED
  BY <1>2, <1>3 DEF Bounds

\* The oldest first.
LEMMA HotWindows ==
    ASSUME Bounds, NEW n \in Nat, NEW i \in Nat
    PROVE  /\ HotWindow(n, i) \subseteq 1 .. n
           /\ \A c \in 1 .. n : c - 1 < i + Size => c - 1 < i \/ c \in HotWindow(n, i)
           /\ ~Follows(n, i) => \A c \in 1 .. n : c - 1 < i + Size
  BY DEF HotWindow, Follows, Bounds

-----------------------------------------------------------------------------
(* Sound answers *)

LEMMA Places ==
    ASSUME Bounds, NEW s, NEW q, Fits(s, q)
    PROVE  /\ q.n \in Nat /\ q.page \in Nat \ {0} /\ ByPlace(q) \in Nat /\ Place(q) \in Nat
           /\ q.cursor.stream \in Streams /\ q.cursor.at \in Nat
           /\ q.cursor.stream # "after" => Place(q) = ByPlace(q)
           /\ q.cursor.stream = "after" =>
                q.cursor.at \in 1 .. q.n /\ Place(q) = q.n - q.cursor.at + 1
           /\ q.page = 1 => ByPlace(q) = 0
           /\ q.page > 1 => ByPlace(q) > 0
           /\ q.page * Size = ByPlace(q) + Size /\ ((q.page + 1) - 1) * Size = ByPlace(q) + Size
<1>1. q.n \in Nat /\ q.page \in Nat \ {0} /\ Size \in Nat \ {0} /\ q.cursor \in Cursors
  BY DEF Fits, Bounds
<1>2. /\ ByPlace(q) \in Nat /\ (q.page = 1 => ByPlace(q) = 0) /\ (q.page > 1 => ByPlace(q) > 0)
      /\ q.page * Size = ByPlace(q) + Size /\ ((q.page + 1) - 1) * Size = ByPlace(q) + Size
  BY <1>1, Multiples DEF ByPlace
<1>3. q.cursor.stream \in Streams /\ q.cursor.at \in Nat
  BY <1>1 DEF Cursors
<1>4. q.cursor.stream # "after" => Place(q) = ByPlace(q)
  BY DEF Place
<1>5. q.cursor.stream = "after" =>
        q.cursor.at \in 1 .. q.n /\ Place(q) = q.n - q.cursor.at + 1
  BY DEF Place, PlaceAfter, Fits
<1>6. Place(q) \in Nat
  BY <1>1, <1>2, <1>4, <1>5
<1>7. QED
  BY <1>1, <1>2, <1>3, <1>4, <1>5, <1>6

\* Where a request leads to that follows a page.
Leads(s, q, next) ==
    \/ next = Cursor("page", q.page + 1) /\ s \in PageSources /\ s # "bilibili"
    \/ next = Cursor("browser", q.page + 1) /\ s \in BrowserSources
    \/ next = Cursor("offset", ByPlace(q) + Size) /\ s \in OffsetSources
    \/ next = Cursor("after", LastOf(q.n, Place(q))) /\ s \in AfterSources /\ q.n > 0

\* The place of a request is not before its page, unless nothing is behind it.
LEMMA NotBefore ==
    ASSUME Bounds, NEW s, NEW q, Fits(s, q)
    PROVE  Place(q) >= ByPlace(q) \/ (q.cursor.stream = "after" /\ q.cursor.at = 1 /\ Place(q) = q.n)
<1>1. CASE q.cursor.stream = "after"
  BY <1>1, Places DEF Fits
<1>2. CASE q.cursor.stream # "after"
  BY <1>2, Places
<1>3. QED
  BY <1>1, <1>2

LEMMA LeadsFit ==
    ASSUME Bounds, NEW s, NEW q, Fits(s, q), NEW a, Leads(s, q, a.next)
    PROVE  /\ Fits(s, NextRequest(q, a)) /\ (Exact(q) => Exact(NextRequest(q, a)))
           /\ a.next.stream \in {"page", "browser", "offset"} =>
                Place(NextRequest(q, a)) = ByPlace(q) + Size
           /\ a.next.stream = "after" =>
                Place(NextRequest(q, a)) = IF Follows(q.n, Place(q)) THEN Place(q) + Size ELSE q.n
           /\ a.next.stream \in {"page", "browser", "offset", "after"}
           /\ s = "bilibili" => a.next.stream # "page"
<1> DEFINE r == NextRequest(q, a)
<1>0. q.n \in 0 .. MaxPosted /\ q.n \in Nat /\ Size \in Nat \ {0}
  BY DEF Fits, Bounds
<1>1. r = Request(r.n, r.page, r.cursor) /\ r.n = q.n /\ r.page = q.page + 1 /\ r.cursor = a.next
  BY DEF NextRequest, Request
<1>2. /\ r.page \in Nat \ {0} /\ ByPlace(r) = ByPlace(q) + Size /\ ByPlace(q) \in Nat
      /\ Place(q) \in Nat
  BY <1>1, Places DEF ByPlace
<1>3. CASE a.next = Cursor("page", q.page + 1) /\ s \in PageSources /\ s # "bilibili"
  <2>1. a.next.stream = "page" /\ a.next.at = r.page /\ a.next \in Cursors /\ a.next # NoCursor
    BY <1>1, <1>2, <1>3 DEF Cursor, Cursors, Streams, NoCursor
  <2>2. QED
    BY <1>0, <1>1, <1>2, <1>3, <2>1 DEF Fits, Exact, Place
<1>4. CASE a.next = Cursor("browser", q.page + 1) /\ s \in BrowserSources
  <2>1. a.next.stream = "browser" /\ a.next.at = r.page /\ a.next \in Cursors /\ a.next # NoCursor
    BY <1>1, <1>2, <1>4 DEF Cursor, Cursors, Streams, NoCursor
  <2>2. QED
    BY <1>0, <1>1, <1>2, <1>4, <2>1 DEF Fits, Exact, Place
<1>5. CASE a.next = Cursor("offset", ByPlace(q) + Size) /\ s \in OffsetSources
  <2>1. a.next.stream = "offset" /\ a.next.at = ByPlace(r) /\ a.next \in Cursors /\ a.next # NoCursor
    BY <1>0, <1>1, <1>2, <1>5 DEF Cursor, Cursors, Streams, NoCursor
  <2>2. QED
    BY <1>0, <1>1, <1>2, <1>5, <2>1 DEF Fits, Exact, Place
<1>6. CASE a.next = Cursor("after", LastOf(q.n, Place(q))) /\ s \in AfterSources /\ q.n > 0
  <2>1. /\ a.next.stream = "after" /\ a.next.at = LastOf(q.n, Place(q))
        /\ LastOf(q.n, Place(q)) \in 1 .. q.n
        /\ PlaceAfter(q.n, LastOf(q.n, Place(q))) =
             IF Follows(q.n, Place(q)) THEN Place(q) + Size ELSE q.n
        /\ ~Follows(q.n, Place(q)) => LastOf(q.n, Place(q)) = 1
    <3> DEFINE i == Place(q)
    <3>1. a.next.stream = "after" /\ a.next.at = LastOf(q.n, i)
      BY <1>6 DEF Cursor
    <3>2. i \in Nat
      BY <1>2
    <3> HIDE DEF i
    <3>3. Follows(q.n, i) => LastOf(q.n, i) \in 1 .. q.n /\ PlaceAfter(q.n, LastOf(q.n, i)) = i + Size
      BY <1>0, <3>2, Windows
    <3>4. ~Follows(q.n, i) => LastOf(q.n, i) = 1 /\ PlaceAfter(q.n, LastOf(q.n, i)) = q.n
      BY <1>0, <3>2, Windows
    <3>5. 1 \in 1 .. q.n
      BY <1>0, <1>6
    <3>6. QED
      BY <3>1, <3>3, <3>4, <3>5 DEF i
  <2>2. a.next \in Cursors /\ a.next # NoCursor
    BY <2>1, <1>6, <1>0 DEF Cursors, Cursor, Streams, NoCursor
  <2>3. Place(r) = IF Follows(q.n, Place(q)) THEN Place(q) + Size ELSE q.n
    BY <1>1, <2>1 DEF Place
  <2>4. a.next.at = 1 \/ Place(r) >= ByPlace(r)
    <3>1. CASE ~Follows(q.n, Place(q))
      BY <3>1, <2>1
    <3>2. CASE Follows(q.n, Place(q))
      <4>1. Place(q) < q.n
        BY <3>2, <1>0, <1>2 DEF Follows
      <4>2. Place(q) >= ByPlace(q)
        BY <4>1, <1>0, <1>2, NotBefore
      <4>3. QED
        BY <4>2, <3>2, <2>3, <1>0, <1>2
    <3>3. QED
      BY <3>1, <3>2
  <2>5. Exact(q) => a.next.at = 1 \/ Place(r) = ByPlace(r)
    <3>1. CASE ~Follows(q.n, Place(q))
      BY <3>1, <2>1
    <3>2. CASE Follows(q.n, Place(q))
      <4>1. Place(q) < q.n
        BY <3>2, <1>0, <1>2 DEF Follows
      <4>2. Exact(q) => Place(q) = ByPlace(q)
        BY <4>1, Places DEF Exact
      <4>3. QED
        BY <4>2, <3>2, <2>3, <1>0, <1>2
    <3>3. QED
      BY <3>1, <3>2
  <2>6. Fits(s, r)
    BY <1>0, <1>1, <1>2, <1>6, <2>1, <2>2, <2>4 DEF Fits
  <2>7. Exact(q) => Exact(r)
    BY <1>1, <2>5 DEF Exact
  <2>8. QED
    BY <2>1, <2>3, <2>6, <2>7
<1>7. QED
  BY <1>3, <1>4, <1>5, <1>6 DEF Leads

\* The newest comments come first, and the cursor is one of their order.
Placed(s, q) == q.cursor.stream # "hot" /\ ~(s = "bilibili" /\ q.cursor.stream = "page")

LEMMA BehindPlaced ==
    ASSUME NEW s, NEW q, Placed(s, q)
    PROVE  Behind(s, q) = {c \in 1 .. q.n : q.n - c < Place(q)}
  BY DEF Behind, Placed

\* A page at the place of its request.
LEMMA PageSound ==
    ASSUME Bounds, NEW s, NEW q, Fits(s, q), NEW a,
           a.items \subseteq 1 .. q.n, a.sure \in BOOLEAN,
           a.next # NoCursor => Leads(s, q, a.next),
           a.sure => /\ Placed(s, q) /\ a.items = Window(q.n, Place(q))
                     /\ a.next = NoCursor => ~Follows(q.n, Place(q))
    PROVE  Sound(s, q, a)
<1> DEFINE i == Place(q)
           r == NextRequest(q, a)
<1>0. q.n \in Nat /\ Size \in Nat \ {0} /\ i \in Nat /\ ByPlace(q) \in Nat
  BY Places DEF Bounds
<1>1. Fitting(s, q, a)
  BY LeadsFit DEF Fitting
<1>2. ASSUME a.sure, Exact(q) PROVE OnPage(q, a)
  <2>1. a.items = Window(q.n, i)
    BY <1>2
  <2>2. i = ByPlace(q) \/ i = q.n
    BY <1>2, Places DEF Exact
  <2>3. i = q.n => Window(q.n, i) = {}
    BY <1>0, Windows
  <2>4. QED
    BY <2>1, <2>2, <2>3 DEF OnPage
<1>3. ASSUME a.sure PROVE Whole(s, q, a)
  <2>1. a.items = Window(q.n, i) /\ Behind(s, q) = {c \in 1 .. q.n : q.n - c < i}
    BY <1>3, BehindPlaced
  <2>2. CASE a.next = NoCursor
    <3>1. ~Follows(q.n, i)
      BY <1>3, <2>2
    <3>2. ASSUME NEW c \in 1 .. q.n PROVE q.n - c < i \/ c \in Window(q.n, i)
      BY <1>0, <3>1, <3>2, Windows
    <3>3. QED
      BY <2>1, <2>2, <3>2 DEF Whole
  <2>3. CASE a.next # NoCursor
    <3>1. r.n = q.n /\ r.cursor = a.next
      BY DEF NextRequest, Request
    <3>2. a.next.stream \in {"page", "browser", "offset", "after"} /\ (s = "bilibili" => a.next.stream # "page")
      BY <2>3, LeadsFit
    <3>3. Behind(s, r) = {c \in 1 .. q.n : q.n - c < Place(r)}
      BY <3>1, <3>2, BehindPlaced DEF Placed
    <3>4. ASSUME NEW c \in 1 .. q.n, q.n - c < Place(r) PROVE q.n - c < i \/ c \in Window(q.n, i)
      <4>1. CASE a.next.stream = "after"
        <5>1. Place(r) = IF Follows(q.n, i) THEN i + Size ELSE q.n
          BY <2>3, <4>1, LeadsFit
        <5>2. q.n - c < i + Size
          <6>1. CASE Follows(q.n, i)
            BY <6>1, <5>1, <3>4
          <6>2. CASE ~Follows(q.n, i)
            BY <6>2, <1>0, Windows
          <6>3. QED
            BY <6>1, <6>2
        <5>3. QED
          BY <1>0, <5>2, Windows
      <4>2. CASE a.next.stream # "after"
        <5>1. Place(r) = ByPlace(q) + Size
          BY <2>3, <4>2, <3>2, LeadsFit
        <5>2. CASE i >= ByPlace(q)
          <6>1. q.n - c < i + Size
            BY <5>1, <5>2, <3>4, <1>0
          <6>2. QED
            BY <6>1, <1>0, Windows
        <5>3. CASE i = q.n
          BY <5>3, <1>0
        <5>4. QED
          BY <5>2, <5>3, NotBefore
      <4>3. QED
        BY <4>1, <4>2
    <3>5. QED
      BY <2>1, <2>3, <3>3, <3>4 DEF Whole
  <2>4. QED
    BY <2>2, <2>3
<1>4. QED
  BY <1>1, <1>2, <1>3 DEF Sound

\* The same request without its cursor.
LEMMA FitsByPage ==
    ASSUME Bounds, NEW s, NEW q, Fits(s, q)
    PROVE  /\ Fits(s, ByPage(q)) /\ Exact(ByPage(q)) /\ Placed(s, ByPage(q))
           /\ ByPage(q).n = q.n /\ ByPage(q).page = q.page /\ ByPage(q).cursor = NoCursor
           /\ ByPlace(ByPage(q)) = ByPlace(q) /\ Place(ByPage(q)) = ByPlace(q)
<1> DEFINE r == ByPage(q)
<1>1. q = [n |-> q.n, page |-> q.page, cursor |-> q.cursor]
  BY DEF Fits, Request
<1>2. r = [n |-> q.n, page |-> q.page, cursor |-> NoCursor]
  BY <1>1 DEF ByPage
<1>3. r.n = q.n /\ r.page = q.page /\ r.cursor = NoCursor
  BY <1>2
<1>4. NoCursor \in Cursors /\ NoCursor.stream = "none"
  BY DEF NoCursor, Cursors, Streams
<1>5. q.n \in 0 .. MaxPosted /\ q.page \in Nat \ {0}
  BY DEF Fits
<1>6. r = Request(r.n, r.page, r.cursor)
  BY <1>2, <1>3 DEF Request
<1>7. Fits(s, r)
  BY <1>3, <1>4, <1>5, <1>6 DEF Fits
<1>8. Exact(r) /\ Placed(s, r) /\ ByPlace(r) = ByPlace(q) /\ Place(r) = ByPlace(q)
  BY <1>3, <1>4 DEF Exact, Placed, ByPlace, Place
<1>9. QED
  BY <1>3, <1>7, <1>8

\* A collector that goes by the page.
LEMMA ByPageSound ==
    ASSUME Bounds, NEW s, s \notin {"geekpark", "weibo"}, NEW q, Fits(s, q), NEW a,
           Sound(s, ByPage(q), a), a.sure => Placed(s, q) \/ q.page = 1
    PROVE  Sound(s, q, a)
<1> DEFINE r == ByPage(q)
<1>0. /\ Fits(s, r) /\ Exact(r) /\ r.n = q.n /\ r.page = q.page /\ Placed(s, r)
      /\ ByPlace(r) = ByPlace(q) /\ Place(r) = ByPlace(q)
  BY FitsByPage
<1>1. NextRequest(r, a) = NextRequest(q, a)
  BY <1>0 DEF NextRequest
<1>2. Fitting(s, q, a)
  BY <1>0, <1>1 DEF Sound, Fitting
<1>3. a.sure /\ Exact(q) /\ s # "geekpark" => OnPage(q, a)
  BY <1>0 DEF Sound, OnPage
<1>4. ASSUME a.sure PROVE Whole(s, q, a)
  <2>1. Whole(s, r, a)
    BY <1>4 DEF Sound, Begun
  <2>2. Behind(s, r) = {c \in 1 .. q.n : q.n - c < ByPlace(q)}
    BY <1>0, BehindPlaced
  <2>3. q.n \in Nat /\ ByPlace(q) \in Nat /\ Place(q) \in Nat /\ (q.page = 1 => ByPlace(q) = 0)
    BY Places
  <2>4. CASE Placed(s, q)
    <3>1. Behind(s, q) = {c \in 1 .. q.n : q.n - c < Place(q)}
      BY <2>4, BehindPlaced
    <3>2. ASSUME NEW c \in 1 .. q.n, q.n - c < ByPlace(q) PROVE q.n - c < Place(q)
      BY <2>3, <3>2, NotBefore
    <3>3. Behind(s, r) \subseteq Behind(s, q)
      BY <2>2, <3>1, <3>2
    <3>4. QED
      BY <2>1, <3>3, <1>0, <1>1 DEF Whole
  <2>5. CASE q.page = 1
    <3>1. ASSUME NEW c \in 1 .. q.n PROVE ~(q.n - c < ByPlace(q))
      BY <2>3, <2>5
    <3>2. Behind(s, r) = {}
      BY <2>2, <3>1
    <3>3. QED
      BY <2>1, <3>2, <1>0, <1>1 DEF Whole
  <2>6. QED
    BY <1>4, <2>4, <2>5
<1>5. QED
  BY <1>2, <1>3, <1>4 DEF Sound

-----------------------------------------------------------------------------
(* What the collectors share *)

LEMMA PageFields ==
    ASSUME NEW n, NEW items, NEW next, NEW sure, NEW a, a = Page(n, items, next, sure)
    PROVE  /\ a.items = items /\ a.next = next /\ a.sure = sure
           /\ a = [coverage |-> a.coverage, items |-> a.items, next |-> a.next, zero |-> a.zero,
                   final |-> a.final, sure |-> a.sure]
  BY DEF Page, Answer

\* A refusal is not used.
LEMMA NotUsable ==
    /\ ~Usable(Failed) /\ ~Usable(Blocked) /\ ~Usable(Unsupported) /\ ~Usable(Unavailable)
    /\ ~Usable([Blocked EXCEPT !.final = TRUE])
    /\ \A a \in Refused : ~Usable(a)
    /\ \A a \in Article : ~Usable(a)
    /\ \A a \in NothingSeen : ~Usable(a)
<1>1. /\ Failed.coverage = "failed" /\ Blocked.coverage = "blocked"
      /\ Unsupported.coverage = "unsupported"
  BY DEF Failed, Blocked, Unsupported, Answer
<1>2. Unavailable.coverage = "unsupported"
  BY DEF Unavailable, Unsupported, Answer
<1>3. [Blocked EXCEPT !.final = TRUE].coverage = "blocked"
  BY DEF Blocked, Answer
<1>4. QED
  BY <1>1, <1>2, <1>3 DEF Usable, Refused, Article, NothingSeen

\* A page as it is sent: without rows and without a mark nobody can know.
LEMMA SentPage ==
    ASSUME Bounds, NEW n \in Nat, NEW i \in Nat, NEW ends \in {"mark", "length", "either", "empty"},
           NEW here, NEW there, NEW a \in Sent(n, i, ends, here, there)
    PROVE  /\ a.items \in {Window(n, i), {}} /\ a.items \subseteq 1 .. n
           /\ a.next \in {NoCursor, here, there} /\ a.sure \in BOOLEAN
           /\ a.sure => a.items = Window(n, i) \/ a.next # NoCursor
           /\ a.items = Window(n, i) /\ a.next = NoCursor => ~Follows(n, i)
           /\ ends = "mark" => (a.next # NoCursor <=> Follows(n, i))
           /\ ends \in {"length", "empty"} /\ a.next # NoCursor => a.items # {}
           /\ a.next # NoCursor => n > 0
           /\ a = [coverage |-> a.coverage, items |-> a.items, next |-> a.next, zero |-> a.zero,
                   final |-> a.final, sure |-> a.sure]
<1>1. PICK pair \in {p \in {Window(n, i), {}} \X {NoCursor, here, there} :
                        (p[2] # NoCursor) = Continues(n, i, p[1], ends)} :
        a = Page(n, pair[1], pair[2], pair[1] = Window(n, i) \/ pair[2] # NoCursor)
  BY DEF Sent
<1>2. /\ pair[1] \in {Window(n, i), {}} /\ pair[2] \in {NoCursor, here, there}
      /\ (pair[2] # NoCursor) = Continues(n, i, pair[1], ends)
  BY <1>1
<1>3. a = [coverage |-> a.coverage, items |-> a.items, next |-> a.next, zero |-> a.zero,
           final |-> a.final, sure |-> a.sure]
  BY <1>1, PageFields
<1>4. a.items = pair[1] /\ a.next = pair[2] /\ a.sure = (pair[1] = Window(n, i) \/ pair[2] # NoCursor)
  BY <1>1, PageFields
<1>5. Size \in Nat \ {0} /\ Cardinality({}) = 0 /\ Window(n, i) \subseteq 1 .. n
  BY Windows, FS_EmptySet DEF Bounds
<1>6. ASSUME pair[1] = Window(n, i), ~Continues(n, i, pair[1], ends) PROVE ~Follows(n, i)
  <2>1. SUFFICES ASSUME Follows(n, i) PROVE FALSE
    OBVIOUS
  <2>2. Cardinality(Window(n, i)) = Size /\ Window(n, i) # {}
    BY <2>1, FullPage, Windows
  <2>3. QED
    BY <1>6, <2>1, <2>2 DEF Continues
<1>7. ASSUME Continues(n, i, pair[1], ends) PROVE n > 0
  <2>1. CASE Follows(n, i)
    BY <2>1, Windows
  <2>2. CASE ~Follows(n, i)
    <3>1. pair[1] # {}
      <4>1. Cardinality(pair[1]) = Size \/ pair[1] # {}
        BY <1>7, <2>2 DEF Continues
      <4>2. QED
        BY <4>1, <1>5
    <3>2. Window(n, i) # {}
      BY <3>1, <1>2
    <3>3. QED
      BY <3>2, Windows
  <2>3. QED
    BY <2>1, <2>2
<1>8. ends = "mark" => (Continues(n, i, pair[1], ends) <=> Follows(n, i))
  BY DEF Continues
<1>9. ends \in {"length", "empty"} /\ Continues(n, i, pair[1], ends) => pair[1] # {}
  BY <1>5 DEF Continues
<1>10. a.items = Window(n, i) /\ a.next = NoCursor => ~Follows(n, i)
  BY <1>2, <1>4, <1>6
<1>11. a.items \in {Window(n, i), {}} /\ a.items \subseteq 1 .. n
  BY <1>2, <1>4, <1>5
<1>12. a.sure \in BOOLEAN /\ (a.sure => a.items = Window(n, i) \/ a.next # NoCursor)
  BY <1>4
<1>13. /\ a.next \in {NoCursor, here, there}
       /\ (a.next # NoCursor) = Continues(n, i, pair[1], ends)
  BY <1>2, <1>4
<1>14. /\ a.next # NoCursor => n > 0
       /\ ends = "mark" => (a.next # NoCursor <=> Follows(n, i))
       /\ ends \in {"length", "empty"} /\ a.next # NoCursor => a.items # {}
  BY <1>4, <1>7, <1>8, <1>9, <1>13
<1>15. QED
  BY <1>3, <1>10, <1>11, <1>12, <1>13, <1>14

\* Pages that follow one another.
LEMMA ChainPlace ==
    ASSUME Bounds, NEW s, NEW q, Fits(s, q), q.cursor.stream \in {"none", "after"}
    PROVE  AfterPlace(q) = Place(q) /\ Placed(s, q)
<1>1. CASE q.cursor.stream = "none"
  BY <1>1 DEF Fits, AfterPlace, Place, ByPlace, Placed, NoCursor
<1>2. CASE q.cursor.stream = "after"
  BY <1>2 DEF AfterPlace, Place, Placed, NoCursor
<1>3. QED
  BY <1>1, <1>2

LEMMA ChainSound ==
    ASSUME Bounds, NEW s \in AfterSources, NEW q, Fits(s, q), q.cursor.stream \in {"none", "after"},
           NEW ends \in {"mark", "length", "either", "empty"}, NEW a \in Chain(q, ends),
           require_page(a.items, a.next, q.cursor)
    PROVE  Sound(s, q, a)
<1> DEFINE i == Place(q)
           there == Cursor("after", LastOf(q.n, i))
<1>1. AfterPlace(q) = i /\ Placed(s, q)
  BY ChainPlace
<1>2. a \in Sent(q.n, i, ends, q.cursor, there)
  BY <1>1 DEF Chain
<1>3. q.n \in Nat /\ i \in Nat
  BY Places
<1> HIDE DEF i, there
<1>4. /\ a.items \in {Window(q.n, i), {}} /\ a.items \subseteq 1 .. q.n
      /\ a.next \in {NoCursor, q.cursor, there} /\ a.sure \in BOOLEAN
      /\ a.sure => a.items = Window(q.n, i) \/ a.next # NoCursor
      /\ a.items = Window(q.n, i) /\ a.next = NoCursor => ~Follows(q.n, i)
      /\ a.next # NoCursor => q.n > 0
  BY <1>2, <1>3, SentPage
<1>5. a.next # NoCursor => a.items # {} /\ a.next = there
  BY <1>4 DEF require_page
<1>6. a.next # NoCursor => Leads(s, q, a.next)
  BY <1>4, <1>5 DEF Leads, there, i
<1>7. a.sure => a.items = Window(q.n, i) /\ (a.next = NoCursor => ~Follows(q.n, i))
  BY <1>4, <1>5
<1>8. QED
  BY <1>1, <1>4, <1>6, <1>7, PageSound DEF i

\* There is no such page.
LEMMA OutOfReachSound ==
    ASSUME Bounds, NEW s, NEW q, Fits(s, q), ~ReachesPage(q), NEW a \in OutOfReach(q)
    PROVE  Sound(s, q, a)
<1>1. q.cursor = NoCursor /\ Place(q) = AfterPlace(q) /\ Placed(s, q)
  BY DEF ReachesPage, AfterPlace, Place, ByPlace, NoCursor, Placed
<1>2. q.n \in Nat /\ Place(q) \in Nat
  BY Places
<1>3. ~(Place(q) < q.n)
  BY <1>1 DEF ReachesPage
<1>4. Window(q.n, Place(q)) = {} /\ ~Follows(q.n, Place(q))
  BY <1>2, <1>3, Windows
<1>5. a = Page(q.n, {}, NoCursor, TRUE)
  BY DEF OutOfReach
<1>6. a.items = {} /\ a.next = NoCursor /\ a.sure = TRUE
  BY <1>5 DEF Page, Answer
<1>7. QED
  BY <1>1, <1>4, <1>6, PageSound

LEMMA ChainedSound ==
    ASSUME Bounds, NEW s \in AfterSources, NEW q, Fits(s, q), q.cursor.stream \in {"none", "after"},
           NEW ends \in {"mark", "length", "either", "empty"},
           NEW a \in Chained(q, ends) \union Followed(q), Usable(a)
    PROVE  Sound(s, q, a)
<1>1. a \notin Refused
  BY NotUsable
<1>2. CASE ReachesPage(q)
  <2>1. /\ a \in Chain(q, ends) \/ a \in Chain(q, "mark")
        /\ require_page(a.items, a.next, q.cursor)
    BY <1>1, <1>2 DEF Chained, Followed, Checked, Advancing
  <2>2. QED
    BY <2>1, ChainSound
<1>3. CASE ~ReachesPage(q)
  <2>1. a \in OutOfReach(q)
    BY <1>1, <1>3 DEF Chained, Followed
  <2>2. QED
    BY <2>1, <1>3, OutOfReachSound
<1>4. QED
  BY <1>2, <1>3

\* Pages with numbers.
LEMMA NumbersPage ==
    ASSUME Bounds, NEW s, NEW q, Fits(s, q), q.cursor.stream \in {"none", "page"}, s \in PageSources,
           s # "bilibili", NEW ends \in {"mark", "length", "either", "empty"},
           NEW a \in Numbers(q, ends)
    PROVE  /\ a.items \in {Window(q.n, Place(q)), {}} /\ a.items \subseteq 1 .. q.n
           /\ PagePlace(q) = Place(q) /\ Placed(s, q)
           /\ PageOf(q) = q.page /\ a.next \in {NoCursor, Cursor("page", q.page + 1)}
           /\ a.next # NoCursor => Leads(s, q, a.next)
           /\ a.sure \in BOOLEAN /\ (a.sure => a.items = Window(q.n, Place(q)) \/ a.next # NoCursor)
           /\ a.items = Window(q.n, Place(q)) /\ a.next = NoCursor => ~Follows(q.n, Place(q))
           /\ ends \in {"length", "empty"} /\ a.next # NoCursor => a.items # {}
           /\ a = [coverage |-> a.coverage, items |-> a.items, next |-> a.next, zero |-> a.zero,
                   final |-> a.final, sure |-> a.sure]
<1> DEFINE i == Place(q)
           there == Cursor("page", q.page + 1)
<1>1. PageOf(q) = q.page
  BY DEF PageOf, Fits
<1>2. PagePlace(q) = i /\ Placed(s, q)
  BY <1>1, Places DEF PagePlace, ByPlace, Placed
<1>3. a \in Sent(q.n, i, ends, there, there)
  BY <1>1, <1>2 DEF Numbers
<1>4. q.n \in Nat /\ i \in Nat
  BY Places
<1>5. a.next \in {NoCursor, there}
  BY <1>3, <1>4, SentPage
<1>6. a.next # NoCursor => Leads(s, q, a.next)
  BY <1>5 DEF Leads
<1> HIDE DEF i, there
<1>7. /\ a.items \in {Window(q.n, i), {}} /\ a.items \subseteq 1 .. q.n
      /\ a.sure \in BOOLEAN
      /\ a.sure => a.items = Window(q.n, i) \/ a.next # NoCursor
      /\ a.items = Window(q.n, i) /\ a.next = NoCursor => ~Follows(q.n, i)
      /\ ends \in {"length", "empty"} /\ a.next # NoCursor => a.items # {}
      /\ a = [coverage |-> a.coverage, items |-> a.items, next |-> a.next, zero |-> a.zero,
              final |-> a.final, sure |-> a.sure]
  BY <1>3, <1>4, SentPage
<1>8. QED
  BY <1>1, <1>2, <1>5, <1>6, <1>7 DEF i, there

LEMMA NumbersSound ==
    ASSUME Bounds, NEW s, NEW q, Fits(s, q), q.cursor.stream \in {"none", "page"}, s \in PageSources,
           s # "bilibili", NEW ends \in {"mark", "length", "either", "empty"},
           NEW a \in Numbers(q, ends), a.next # NoCursor => a.items # {}
    PROVE  Sound(s, q, a)
<1>1. /\ a.items \in {Window(q.n, Place(q)), {}} /\ a.items \subseteq 1 .. q.n /\ Placed(s, q)
      /\ a.next # NoCursor => Leads(s, q, a.next)
      /\ a.sure \in BOOLEAN /\ (a.sure => a.items = Window(q.n, Place(q)) \/ a.next # NoCursor)
      /\ a.items = Window(q.n, Place(q)) /\ a.next = NoCursor => ~Follows(q.n, Place(q))
  BY NumbersPage
<1>2. a.sure => a.items = Window(q.n, Place(q)) /\ (a.next = NoCursor => ~Follows(q.n, Place(q)))
  BY <1>1
<1>3. QED
  BY <1>1, <1>2, PageSound

LEMMA NumberedSound ==
    ASSUME Bounds, NEW s, NEW q, Fits(s, q), q.cursor.stream \in {"none", "page"}, s \in PageSources,
           s # "bilibili", NEW a \in Numbered(q, "mark"), Usable(a)
    PROVE  Sound(s, q, a)
<1>1. a \notin Refused
  BY NotUsable
<1>2. a \in Numbers(q, "mark") /\ (a.next # NoCursor => a.items # {})
  BY <1>1 DEF Numbered, Checked, require_page
<1>3. QED
  BY <1>2, NumbersSound

\* The last page is one that is not full, or has nothing.
LEMMA CountedSound ==
    ASSUME Bounds, NEW s, NEW q, Fits(s, q), q.cursor.stream \in {"none", "page"}, s \in PageSources,
           s # "bilibili", NEW ends \in {"length", "empty"}, NEW a \in Numbers(q, ends)
    PROVE  Sound(s, q, a)
  BY NumbersPage, NumbersSound

\* Offsets.
LEMMA OffsetsSound ==
    ASSUME Bounds, NEW s \in OffsetSources, NEW q, Fits(s, q), NEW a \in Offsets(q),
           require_page(a.items, a.next, Offset(q))
    PROVE  Sound(s, q, a)
<1> DEFINE i == Place(q)
           there == Cursor("offset", ByPlace(q) + Size)
<1>1. q.cursor.stream \in {"none", "offset"}
  BY Places DEF Fits, OffsetSources, PageSources, AfterSources, BrowserSources, Streams
<1>2. OffsetPlace(q) = ByPlace(q) /\ i = ByPlace(q) /\ Placed(s, q)
  <2>1. CASE q.cursor.stream = "none"
    BY <2>1 DEF Fits, OffsetPlace, Place, ByPlace, Placed, NoCursor
  <2>2. CASE q.cursor.stream = "offset"
    BY <2>2 DEF Fits, OffsetPlace, Place, Placed, NoCursor
  <2>3. QED
    BY <1>1, <2>1, <2>2
<1>3. a \in Sent(q.n, i, "mark", Offset(q), there)
  BY <1>2 DEF Offsets, Offset
<1>4. q.n \in Nat /\ i \in Nat
  BY Places
<1>5. there \in {there} /\ (a.next = there => Leads(s, q, a.next))
  BY DEF Leads
<1> HIDE DEF i, there
<1>6. /\ a.items \in {Window(q.n, i), {}} /\ a.items \subseteq 1 .. q.n
      /\ a.next \in {NoCursor, Offset(q), there} /\ a.sure \in BOOLEAN
      /\ a.sure => a.items = Window(q.n, i) \/ a.next # NoCursor
      /\ a.items = Window(q.n, i) /\ a.next = NoCursor => ~Follows(q.n, i)
  BY <1>3, <1>4, SentPage
<1>7. a.next # NoCursor => a.items # {} /\ a.next = there
  BY <1>6 DEF require_page
<1>8. a.sure => a.items = Window(q.n, i) /\ (a.next = NoCursor => ~Follows(q.n, i))
  BY <1>6, <1>7
<1>9. QED
  BY <1>2, <1>5, <1>6, <1>7, <1>8, PageSound DEF i

\* There are no comments at all.
LEMMA ZeroSound ==
    ASSUME Bounds, NEW s, NEW q, Fits(s, q), q.n = 0, NEW a, a.items = {}, a.next = NoCursor,
           a.sure \in BOOLEAN
    PROVE  Sound(s, q, a)
<1>1. Fitting(s, q, a)
  BY DEF Fitting
<1>2. OnPage(q, a) /\ Whole(s, q, a)
  BY DEF OnPage, Whole
<1>3. QED
  BY <1>1, <1>2 DEF Sound

LEMMA NoneSound ==
    ASSUME Bounds, NEW s, NEW q, Fits(s, q), NEW a \in zero_or_unavailable(q), Usable(a)
    PROVE  Sound(s, q, a)
<1>1. q.n = 0 /\ a = Zero
  BY NotUsable DEF zero_or_unavailable
<1>2. a.items = {} /\ a.next = NoCursor /\ a.sure = TRUE
  BY <1>1 DEF Zero, Answer
<1>3. QED
  BY <1>1, <1>2, ZeroSound

\* A collector that could not have noticed an omission.
LEMMA UnsureSound ==
    ASSUME Bounds, NEW s, NEW q, Fits(s, q), NEW a, a.items \subseteq 1 .. q.n, a.sure = FALSE,
           a.next # NoCursor => Leads(s, q, a.next)
    PROVE  Sound(s, q, a)
  BY PageSound

LEMMA ForeignSound ==
    ASSUME Bounds, NEW s, NEW q, Fits(s, q), NEW a \in Foreign(q)
    PROVE  Sound(s, q, a)
<1>1. PICK i \in 0 .. q.n : a = Page(q.n, Window(q.n, i), NoCursor, FALSE)
  BY DEF Foreign
<1>2. a.items = Window(q.n, i) /\ a.next = NoCursor /\ a.sure = FALSE
  BY <1>1 DEF Page, Answer
<1>3. q.n \in Nat /\ i \in Nat
  BY Places
<1>4. a.items \subseteq 1 .. q.n
  BY <1>2, <1>3, Windows
<1>5. QED
  BY <1>2, <1>4, UnsureSound

\* What was not looked at is only certain when it is the page.
LEMMA UnseenFields ==
    ASSUME NEW answers, NEW n, NEW i,
           \A b \in answers : b = [coverage |-> b.coverage, items |-> b.items, next |-> b.next,
                                   zero |-> b.zero, final |-> b.final, sure |-> b.sure],
           NEW a \in Unseen(answers, n, i)
    PROVE  /\ \E b \in answers : a.items = b.items /\ a.next = b.next
           /\ a.sure \in BOOLEAN
           /\ a.sure => a.items = Window(n, i) /\ (Follows(n, i) => a.next # NoCursor)
<1>1. PICK b \in answers :
        a = [b EXCEPT !.sure = (b.items = Window(n, i) /\ (Follows(n, i) => b.next # NoCursor))]
  BY DEF Unseen
<1>2. b = [coverage |-> b.coverage, items |-> b.items, next |-> b.next, zero |-> b.zero,
           final |-> b.final, sure |-> b.sure]
  OBVIOUS
<1>3. /\ a.items = b.items /\ a.next = b.next
      /\ a.sure = (b.items = Window(n, i) /\ (Follows(n, i) => b.next # NoCursor))
  BY <1>1, <1>2
<1>4. a.sure \in BOOLEAN
  BY <1>3
<1>5. a.sure => a.items = Window(n, i) /\ (Follows(n, i) => a.next # NoCursor)
  BY <1>3
<1>6. QED
  BY <1>3, <1>4, <1>5

LEMMA UnseenSound ==
    ASSUME Bounds, NEW s, NEW q, Fits(s, q), Placed(s, q), NEW answers,
           \A b \in answers :
              /\ b = [coverage |-> b.coverage, items |-> b.items, next |-> b.next,
                      zero |-> b.zero, final |-> b.final, sure |-> b.sure]
              /\ b.items \subseteq 1 .. q.n
              /\ b.next # NoCursor => Leads(s, q, b.next),
           NEW a \in Unseen(answers, q.n, Place(q))
    PROVE  Sound(s, q, a)
<1>1. PICK b \in answers : a.items = b.items /\ a.next = b.next
  BY UnseenFields
<1>2. /\ a.sure \in BOOLEAN
      /\ a.sure => a.items = Window(q.n, Place(q)) /\ (Follows(q.n, Place(q)) => a.next # NoCursor)
  BY UnseenFields
<1>3. a.items \subseteq 1 .. q.n /\ (a.next # NoCursor => Leads(s, q, a.next))
  BY <1>1
<1>4. QED
  BY <1>2, <1>3, PageSound

-----------------------------------------------------------------------------
(* The collectors that are alone with what they do *)

\* The page of a shared client of sohu, which tells whether more follow.
LEMMA ClientSound ==
    ASSUME Bounds, NEW q, Fits("sohu_client", q), NEW a \in fetch_client_article(q), Usable(a)
    PROVE  Sound("sohu_client", q, a)
<1> DEFINE s == "sohu_client"
           i == Place(q)
           there == Cursor("after", LastOf(q.n, i))
           nexts == IF q.page * Size < q.n THEN {q.cursor, there} \ {NoCursor} ELSE {NoCursor}
<1>1. q.cursor.stream \in {"none", "after"}
  BY Places DEF Fits, OffsetSources, PageSources, BrowserSources, Streams
<1>2. AfterPlace(q) = i /\ Placed(s, q)
  BY <1>1, ChainPlace
<1>3. a \notin Refused
  BY NotUsable
<1>4. /\ a \in {Page(q.n, pair[1], pair[2], pair[1] = Window(q.n, i) \/ pair[2] # NoCursor) :
                  pair \in {Window(q.n, i), {}} \X nexts}
      /\ require_page(a.items, a.next, q.cursor)
  BY <1>2, <1>3 DEF fetch_client_article, Advancing
<1>5. PICK pair \in {Window(q.n, i), {}} \X nexts :
        a = Page(q.n, pair[1], pair[2], pair[1] = Window(q.n, i) \/ pair[2] # NoCursor)
  BY <1>4
<1>6. pair[1] \in {Window(q.n, i), {}} /\ pair[2] \in nexts
  BY <1>5
<1>7. a.items = pair[1] /\ a.next = pair[2] /\ a.sure = (pair[1] = Window(q.n, i) \/ pair[2] # NoCursor)
  BY <1>5, PageFields
<1>8. q.n \in Nat /\ i \in Nat /\ q.page * Size = ByPlace(q) + Size /\ ByPlace(q) \in Nat
  BY Places
<1>9. a.items \in {Window(q.n, i), {}} /\ a.items \subseteq 1 .. q.n
  BY <1>6, <1>7, <1>8, Windows
<1>10. a.next # NoCursor => a.next = there /\ a.items # {} /\ q.page * Size < q.n
  BY <1>4, <1>6, <1>7 DEF require_page
<1>11. a.next # NoCursor => Leads(s, q, a.next)
  BY <1>8, <1>10 DEF Leads, AfterSources, Bounds
<1>12. a.next = NoCursor => ~Follows(q.n, i)
  <2>1. SUFFICES ASSUME a.next = NoCursor PROVE ~Follows(q.n, i)
    OBVIOUS
  <2>2. ~(q.page * Size < q.n)
    BY <2>1, <1>6, <1>7
  <2>3. Place(q) >= ByPlace(q) \/ Place(q) = q.n
    BY NotBefore
  <2>4. QED
    BY <2>2, <2>3, <1>8 DEF Follows, Bounds
<1>13. a.sure \in BOOLEAN /\ (a.sure => a.items = Window(q.n, i) \/ a.next # NoCursor)
  BY <1>7
<1>14. a.sure => a.items = Window(q.n, i) /\ (a.next = NoCursor => ~Follows(q.n, i))
  BY <1>9, <1>10, <1>12, <1>13
<1>15. QED
  BY <1>2, <1>9, <1>11, <1>13, <1>14, PageSound

\* parse_comments, which looks at nothing.
LEMMA ParseSound ==
    ASSUME Bounds, NEW s \in AfterSources, NEW q, Fits(s, q), q.cursor.stream \in {"none", "after"},
           NEW a \in parse_comments(q)
    PROVE  Sound(s, q, a)
<1> DEFINE i == Place(q)
           there == Cursor("after", LastOf(q.n, i))
           answers == Sent(q.n, i, "mark", NoCursor, there) \union {Page(q.n, Window(q.n, i), NoCursor, TRUE)}
<1>1. AfterPlace(q) = i /\ Placed(s, q)
  BY ChainPlace
<1>2. a \in Unseen(answers, q.n, i)
  BY <1>1 DEF parse_comments
<1>3. q.n \in Nat /\ i \in Nat
  BY Places
<1>4. q.n > 0 => Leads(s, q, there)
  BY DEF Leads
<1> HIDE DEF i, there
<1>5. ASSUME NEW b \in Sent(q.n, i, "mark", NoCursor, there)
      PROVE  /\ b = [coverage |-> b.coverage, items |-> b.items, next |-> b.next,
                      zero |-> b.zero, final |-> b.final, sure |-> b.sure]
             /\ b.items \subseteq 1 .. q.n
             /\ b.next # NoCursor => Leads(s, q, b.next)
  BY <1>3, <1>4, <1>5, SentPage
<1>6. ASSUME NEW b, b = Page(q.n, Window(q.n, i), NoCursor, TRUE)
      PROVE  /\ b = [coverage |-> b.coverage, items |-> b.items, next |-> b.next,
                      zero |-> b.zero, final |-> b.final, sure |-> b.sure]
             /\ b.items \subseteq 1 .. q.n
             /\ b.next # NoCursor => Leads(s, q, b.next)
  <2>1. b.items = Window(q.n, i) /\ b.next = NoCursor
    BY <1>6 DEF Page, Answer
  <2>2. b = [coverage |-> b.coverage, items |-> b.items, next |-> b.next, zero |-> b.zero,
             final |-> b.final, sure |-> b.sure]
    BY <1>6 DEF Page, Answer
  <2>3. QED
    BY <1>3, <2>1, <2>2, Windows
<1>7. \A b \in answers : /\ b = [coverage |-> b.coverage, items |-> b.items, next |-> b.next,
                                 zero |-> b.zero, final |-> b.final, sure |-> b.sure]
                         /\ b.items \subseteq 1 .. q.n
                         /\ b.next # NoCursor => Leads(s, q, b.next)
  BY <1>5, <1>6
<1> HIDE DEF answers
<1>8. QED
  BY <1>1, <1>2, <1>7, UnseenSound DEF i

\* One of the two streams of weibo, and the older interface of bilibili.
LEMMA StreamFields ==
    ASSUME NEW n, NEW i, NEW window, NEW there, NEW a \in Stream(n, i, window, there)
    PROVE  /\ a.items \in {window, {}} /\ a.next \in {NoCursor, there}
           /\ a.sure \in BOOLEAN
           /\ a.sure => a.items = window /\ (a.next = NoCursor => ~Follows(n, i))
           /\ a = [coverage |-> a.coverage, items |-> a.items, next |-> a.next, zero |-> a.zero,
                   final |-> a.final, sure |-> a.sure]
<1> DEFINE nexts == IF Follows(n, i) THEN {NoCursor, there} ELSE {NoCursor}
<1>1. PICK pair \in {window, {}} \X nexts :
        a = Page(n, pair[1], pair[2], pair[1] = window /\ (Follows(n, i) => pair[2] # NoCursor))
  BY DEF Stream
<1>2. pair[1] \in {window, {}} /\ pair[2] \in {NoCursor, there}
  BY <1>1
<1>3. /\ a.items = pair[1] /\ a.next = pair[2]
      /\ a.sure = (pair[1] = window /\ (Follows(n, i) => pair[2] # NoCursor))
      /\ a = [coverage |-> a.coverage, items |-> a.items, next |-> a.next, zero |-> a.zero,
              final |-> a.final, sure |-> a.sure]
  BY <1>1, PageFields
<1>4. a.sure \in BOOLEAN /\ (a.sure => pair[1] = window /\ (Follows(n, i) => pair[2] # NoCursor))
  BY <1>3
<1>5. QED
  BY <1>2, <1>3, <1>4

LEMMA HotSound ==
    ASSUME Bounds, NEW q, Fits("weibo", q), q.cursor.stream \in {"none", "hot"},
           NEW a \in parse_hot_comments(q)
    PROVE  Sound("weibo", q, a)
<1> DEFINE s == "weibo"
           i == ByPlace(q)
           there == Cursor("hot", q.page + 1)
           r == NextRequest(q, a)
<1>1. /\ q.n \in Nat /\ q.n \in 0 .. MaxPosted /\ i \in Nat /\ q.page \in Nat \ {0}
      /\ Size \in Nat \ {0} /\ Place(q) = i /\ (q.page = 1 => i = 0)
  BY Places DEF Fits, Bounds
<1>2. Behind(s, q) \subseteq 1 .. q.n
  BY DEF Behind
<1>3. CASE q.page = 1 \/ i < q.n
  <2>1. a \in Stream(q.n, i, HotWindow(q.n, i), there)
    BY <1>3 DEF parse_hot_comments, ByPlace
  <2> HIDE DEF i
  <2>2. /\ a.items \in {HotWindow(q.n, i), {}} /\ a.next \in {NoCursor, there}
        /\ a.sure \in BOOLEAN
        /\ a.sure => a.items = HotWindow(q.n, i) /\ (a.next = NoCursor => ~Follows(q.n, i))
    BY <2>1, StreamFields
  <2>3. a.items \subseteq 1 .. q.n
    BY <2>2, <1>1, HotWindows
  <2>4. r = Request(r.n, r.page, r.cursor) /\ r.n = q.n /\ r.page = q.page + 1 /\ r.cursor = a.next
    BY DEF NextRequest, Request
  <2>5. a.next # NoCursor => /\ a.next = there /\ there.stream = "hot" /\ there.at = q.page + 1
                             /\ there \in Cursors
    BY <2>2, <1>1 DEF Cursor, Cursors, Streams
  <2>6. a.next # NoCursor => Fits(s, r) /\ Exact(r)
    BY <2>4, <2>5, <1>1 DEF Fits, Exact
  <2>7. Fitting(s, q, a)
    BY <2>2, <2>3, <2>6 DEF Fitting
  <2>8. a.sure => OnPage(q, a)
    BY <2>2 DEF OnPage, i
  <2>9. ASSUME a.sure, Begun(s, q) PROVE Whole(s, q, a)
    <3>1. \A c \in 1 .. q.n : c - 1 < i => c \in Behind(s, q)
      <4>1. CASE q.cursor.stream = "hot"
        BY <4>1 DEF Behind, i
      <4>2. CASE q.cursor.stream = "none"
        <5>1. i = 0
          BY <4>2, <2>9, <1>1 DEF Fits, Begun
        <5>2. QED
          BY <5>1
      <4>3. QED
        BY <4>1, <4>2
    <3>2. CASE a.next = NoCursor
      <4>1. a.items = HotWindow(q.n, i) /\ ~Follows(q.n, i)
        BY <2>9, <3>2, <2>2
      <4>2. \A c \in 1 .. q.n : c - 1 < i + Size
        BY <4>1, <1>1, HotWindows
      <4>3. \A c \in 1 .. q.n : c - 1 < i \/ c \in a.items
        BY <4>1, <4>2, <1>1, HotWindows
      <4>4. QED
        BY <4>3, <3>1, <3>2 DEF Whole
    <3>3. CASE a.next # NoCursor
      <4>1. Behind(s, r) = {c \in 1 .. q.n : c - 1 < ByPlace(r)}
        BY <2>4, <2>5, <3>3 DEF Behind
      <4>2. ByPlace(r) = i + Size
        BY <2>4, Places DEF ByPlace, i
      <4>3. \A c \in 1 .. q.n : c - 1 < i + Size => c - 1 < i \/ c \in a.items
        BY <2>9, <2>2, <1>1, HotWindows
      <4>4. QED
        BY <4>1, <4>2, <4>3, <3>1, <3>3 DEF Whole
    <3>4. QED
      BY <3>2, <3>3
  <2>10. QED
    BY <2>7, <2>8, <2>9 DEF Sound
<1>4. CASE ~(q.page = 1 \/ i < q.n)
  <2>1. a = Page(q.n, {}, NoCursor, TRUE)
    BY <1>4 DEF parse_hot_comments, ByPlace, OutOfReach
  <2>2. a.items = {} /\ a.next = NoCursor /\ a.sure = TRUE
    BY <2>1 DEF Page, Answer
  <2>3. Fitting(s, q, a) /\ OnPage(q, a)
    BY <2>2 DEF Fitting, OnPage
  <2>4. ASSUME NEW c \in 1 .. q.n PROVE c \in Behind(s, q)
    BY <1>1, <1>4 DEF Behind
  <2>5. Whole(s, q, a)
    BY <2>2, <2>4 DEF Whole
  <2>6. QED
    BY <2>3, <2>5 DEF Sound
<1>5. QED
  BY <1>3, <1>4

LEMMA NumberingSound ==
    ASSUME Bounds, NEW q, Fits("weibo", q), q.cursor.stream \in {"none", "page"},
           NEW a \in parse_numbered_comments(q)
    PROVE  Sound("weibo", q, a)
<1> DEFINE i == Place(q)
           there == Cursor("page", q.page + 1)
<1>1. q.n \in Nat /\ i \in Nat /\ i = ByPlace(q) /\ Placed("weibo", q)
  BY Places DEF Placed
<1>2. a \in Stream(q.n, i, Window(q.n, i), there)
  BY <1>1 DEF parse_numbered_comments, ByPlace
<1>3. Leads("weibo", q, there)
  BY DEF Leads, PageSources
<1> HIDE DEF i, there
<1>4. /\ a.items \in {Window(q.n, i), {}} /\ a.next \in {NoCursor, there} /\ a.sure \in BOOLEAN
      /\ a.sure => a.items = Window(q.n, i) /\ (a.next = NoCursor => ~Follows(q.n, i))
  BY <1>2, StreamFields
<1>5. a.items \subseteq 1 .. q.n
  BY <1>1, <1>4, Windows
<1>6. QED
  BY <1>1, <1>3, <1>4, <1>5, PageSound DEF i

LEMMA WeiboSound ==
    ASSUME Bounds, NEW q, Fits("weibo", q), NEW a \in weibo(q), Usable(a)
    PROVE  Sound("weibo", q, a)
<1>1. q.cursor.stream \in {"none", "page", "hot"}
  BY Places DEF Fits, OffsetSources, AfterSources, BrowserSources, Streams
<1>2. a \notin fetch_public_stats(q)
  BY NotUsable DEF fetch_public_stats
<1>3. CASE q.cursor.stream = "page"
  BY <1>2, <1>3, NumberingSound DEF weibo, Numbering
<1>4. CASE q.cursor.stream # "page" /\ a \in parse_hot_comments(q)
  BY <1>1, <1>4, HotSound
<1>5. CASE q.cursor.stream # "page" /\ a \notin parse_hot_comments(q)
  <2>1. q.cursor = NoCursor /\ a \in parse_numbered_comments(q) \union NothingVisible(q)
    BY <1>2, <1>5 DEF weibo, Numbering
  <2>2. q.cursor.stream = "none"
    BY <2>1 DEF NoCursor
  <2>3. CASE a \in parse_numbered_comments(q)
    BY <2>2, <2>3, NumberingSound
  <2>4. CASE a \in NothingVisible(q)
    <3>1. a = [Answer("partial", {}, NoCursor) EXCEPT !.final = TRUE, !.sure = (q.n = 0)]
      BY <2>4 DEF NothingVisible
    <3>2. a.items = {} /\ a.next = NoCursor /\ a.sure = (q.n = 0)
      BY <3>1 DEF Answer
    <3>3. a.sure \in BOOLEAN /\ (q.n # 0 => a.sure = FALSE) /\ a.items \subseteq 1 .. q.n
      BY <3>2
    <3>4. CASE q.n = 0
      BY <3>2, <3>3, <3>4, ZeroSound
    <3>5. CASE q.n # 0
      BY <3>2, <3>3, <3>5, UnsureSound
    <3>6. QED
      BY <3>4, <3>5
  <2>5. QED
    BY <2>1, <2>3, <2>4
<1>6. QED
  BY <1>3, <1>4, <1>5

\* The older interface: only its first page is certain, and nothing is known
\* behind its cursor.
LEMMA LegacySound ==
    ASSUME Bounds, NEW q, Fits("bilibili", q), NEW a \in fetch_legacy_comments(q)
    PROVE  Sound("bilibili", q, a)
<1> DEFINE s == "bilibili"
           i == ByPlace(q)
           there == Cursor("page", q.page + 1)
           r == NextRequest(q, a)
<1>1. /\ q.n \in Nat /\ q.n \in 0 .. MaxPosted /\ i \in Nat /\ q.page \in Nat \ {0}
      /\ q.page = 1 => i = 0
  BY Places DEF Fits
<1>2. PICK b \in Stream(q.n, i, HotWindow(q.n, i), there) : a = [b EXCEPT !.sure = b.sure /\ q.page = 1]
  BY DEF fetch_legacy_comments, ByPlace
<1> HIDE DEF i
<1>3. /\ b.items \in {HotWindow(q.n, i), {}} /\ b.next \in {NoCursor, there}
      /\ b.sure \in BOOLEAN
      /\ b.sure => b.items = HotWindow(q.n, i) /\ (b.next = NoCursor => ~Follows(q.n, i))
      /\ b = [coverage |-> b.coverage, items |-> b.items, next |-> b.next, zero |-> b.zero,
              final |-> b.final, sure |-> b.sure]
  BY StreamFields
<1>4. a.items = b.items /\ a.next = b.next /\ a.sure = (b.sure /\ q.page = 1)
  BY <1>2, <1>3
<1>5. a.sure \in BOOLEAN /\ (a.sure => b.sure /\ q.page = 1)
  BY <1>4
<1>6. a.items \subseteq 1 .. q.n
  BY <1>1, <1>3, <1>4, HotWindows
<1>7. r = Request(r.n, r.page, r.cursor) /\ r.n = q.n /\ r.page = q.page + 1 /\ r.cursor = a.next
  BY DEF NextRequest, Request
<1>8. a.next # NoCursor => /\ a.next = there /\ there.stream = "page" /\ there.at = q.page + 1
                           /\ there \in Cursors
  BY <1>1, <1>3, <1>4 DEF Cursor, Cursors, Streams
<1>9. a.next # NoCursor => Fits(s, r) /\ Exact(r)
  BY <1>1, <1>7, <1>8 DEF Fits, Exact, PageSources
<1>10. Fitting(s, q, a)
  BY <1>5, <1>6, <1>9 DEF Fitting
<1>11. ASSUME a.sure PROVE OnPage(q, a)
  BY <1>3, <1>4, <1>5, <1>11 DEF OnPage, i
<1>12. ASSUME a.sure PROVE Whole(s, q, a)
  <2>1. i = 0 /\ a.items = HotWindow(q.n, i) /\ (a.next = NoCursor => ~Follows(q.n, i))
    BY <1>1, <1>3, <1>4, <1>5, <1>12
  <2>2. CASE a.next = NoCursor
    <3>1. \A c \in 1 .. q.n : c - 1 < i + Size
      BY <2>1, <2>2, <1>1, HotWindows
    <3>2. \A c \in 1 .. q.n : c \in a.items
      BY <2>1, <3>1, <1>1, HotWindows
    <3>3. QED
      BY <2>2, <3>2 DEF Whole
  <2>3. CASE a.next # NoCursor
    <3>1. Behind(s, r) = {}
      BY <1>7, <1>8, <2>3 DEF Behind
    <3>2. QED
      BY <2>3, <3>1 DEF Whole
  <2>4. QED
    BY <2>2, <2>3
<1>13. QED
  BY <1>10, <1>11, <1>12 DEF Sound

\* All comments at once.
LEMMA AllAtOnce ==
    ASSUME Bounds, NEW q, Fits("geekpark", q), NEW a \in geekpark(q), Usable(a)
    PROVE  Sound("geekpark", q, a)
<1>1. a = Page(q.n, IF AtFirst(q) THEN 1 .. q.n ELSE {}, NoCursor, TRUE)
  BY NotUsable DEF geekpark
<1>2. /\ a.items = (IF AtFirst(q) THEN 1 .. q.n ELSE {}) /\ a.next = NoCursor /\ a.sure = TRUE
  BY <1>1 DEF Page, Answer
<1>3. Fitting("geekpark", q, a)
  BY <1>2 DEF Fitting
<1>4. q.cursor = NoCursor
  BY Places DEF Fits, OffsetSources, PageSources, AfterSources, BrowserSources, Streams
<1>5. Begun("geekpark", q) => Whole("geekpark", q, a)
  BY <1>2, <1>4 DEF Begun, Whole, AtFirst
<1>6. QED
  BY <1>3, <1>5 DEF Sound

\* The comments on the article's own page.
LEMMA OwnPage ==
    ASSUME Bounds, NEW q, Fits("qctt", q), NEW a \in qctt(q), Usable(a)
    PROVE  Sound("qctt", q, a)
<1>1. AtFirst(q) /\ a = IF q.n = 0 THEN Zero ELSE Page(q.n, Window(q.n, 0), NoCursor, ~Follows(q.n, 0))
  BY NotUsable DEF qctt
<1>2. CASE q.n = 0
  <2>1. a.items = {} /\ a.next = NoCursor /\ a.sure = TRUE
    BY <1>1, <1>2 DEF Zero, Answer
  <2>2. QED
    BY <2>1, <1>2, ZeroSound
<1>3. CASE q.n # 0
  <2>1. a.items = Window(q.n, 0) /\ a.next = NoCursor /\ a.sure = ~Follows(q.n, 0)
    BY <1>1, <1>3 DEF Page, Answer
  <2>2. Place(q) = 0 /\ q.n \in Nat /\ Placed("qctt", q)
    BY <1>1, Places DEF AtFirst, NoCursor, Placed
  <2>3. a.items \subseteq 1 .. q.n
    BY <2>1, <2>2, Windows
  <2>4. a.sure \in BOOLEAN /\ (a.sure => ~Follows(q.n, 0))
    BY <2>1
  <2>5. QED
    BY <2>1, <2>2, <2>3, <2>4, PageSound
<1>4. QED
  BY <1>2, <1>3

\* A thread of the forum of autohome.
LEMMA ForumSound ==
    ASSUME Bounds, NEW q, Fits("autohome_forum", q), NEW a \in fetch_forum(q), Usable(a)
    PROVE  Sound("autohome_forum", q, a)
<1> DEFINE s == "autohome_forum"
           answers == Counted(Numbers(q, "mark"), q.n, PageOf(q) = 1)
<1>1. q.cursor.stream \in {"none", "page"} /\ s \in PageSources /\ s # "bilibili"
  BY Places DEF Fits, OffsetSources, AfterSources, BrowserSources, PageSources, Streams
<1>2. a \in Unseen(answers, q.n, PagePlace(q))
  BY NotUsable DEF fetch_forum
<1>3. answers \subseteq Numbers(q, "mark")
  BY DEF Counted
<1>4. ASSUME NEW b \in Numbers(q, "mark")
      PROVE  /\ b = [coverage |-> b.coverage, items |-> b.items, next |-> b.next,
                      zero |-> b.zero, final |-> b.final, sure |-> b.sure]
             /\ b.items \subseteq 1 .. q.n
             /\ b.next # NoCursor => Leads(s, q, b.next)
             /\ PagePlace(q) = Place(q) /\ Placed(s, q)
  BY <1>1, NumbersPage
<1> HIDE DEF answers
<1>5. PagePlace(q) = Place(q) /\ Placed(s, q)
  <2>1. PICK b \in answers : TRUE
    BY <1>2 DEF Unseen
  <2>2. QED
    BY <2>1, <1>3, <1>4
<1>6. QED
  BY <1>2, <1>3, <1>4, <1>5, UnseenSound

\* Sources that go by the page.
LEMMA SohuSound ==
    ASSUME Bounds, NEW s \in {"sohu", "sohu_auto"}, NEW q, Fits(s, q), NEW a \in sohu(q), Usable(a)
    PROVE  Sound(s, q, a)
<1> DEFINE r == ByPage(q)
<1>1. a \in Numbers(r, "mark") /\ require_page(a.items, a.next, Cursor("page", q.page))
  BY NotUsable DEF sohu, Advancing
<1>2. Fits(s, r) /\ r.cursor.stream = "none"
  BY FitsByPage DEF NoCursor
<1>3. s \in PageSources /\ s \notin {"geekpark", "weibo", "bilibili"}
  BY DEF PageSources
<1>4. Sound(s, r, a)
  BY <1>1, <1>2, <1>3, NumbersSound DEF require_page
<1>5. Placed(s, q)
  BY <1>3 DEF Placed, Fits
<1>6. QED
  BY <1>3, <1>4, <1>5, ByPageSound

LEMMA SinaSound ==
    ASSUME Bounds, NEW q, Fits("sina", q), NEW a \in sina(q), Usable(a)
    PROVE  Sound("sina", q, a)
<1> DEFINE s == "sina"
           r == ByPage(q)
<1>1. a \in Numbers(r, "length")
  BY NotUsable DEF sina
<1>2. Fits(s, r) /\ r.cursor.stream = "none"
  BY FitsByPage DEF NoCursor
<1>3. s \in PageSources /\ s \notin {"geekpark", "weibo", "bilibili"}
  BY DEF PageSources
<1>4. Sound(s, r, a)
  BY <1>1, <1>2, <1>3, CountedSound
<1>5. Placed(s, q)
  BY <1>3 DEF Placed, Fits
<1>6. QED
  BY <1>3, <1>4, <1>5, ByPageSound

LEMMA HaokanSound ==
    ASSUME Bounds, NEW q, Fits("haokan", q), NEW a \in haokan(q), Usable(a)
    PROVE  Sound("haokan", q, a)
<1> DEFINE s == "haokan"
           r == ByPage(q)
           answers == Numbers(r, "mark")
<1>1. Fits(s, r) /\ r.cursor.stream = "none" /\ Placed(s, r) /\ Place(r) = ByPlace(q) /\ r.n = q.n
  BY FitsByPage DEF NoCursor
<1>2. s \in PageSources /\ s \notin {"geekpark", "weibo", "bilibili"} /\ Placed(s, q)
  BY DEF PageSources, Placed, Fits
<1>3. a \notin Refused
  BY NotUsable
<1>4. CASE a = [Answer("partial", {}, Cursor("page", q.page + 1)) EXCEPT !.sure = FALSE]
  <2>1. a.items = {} /\ a.next = Cursor("page", q.page + 1) /\ a.sure = FALSE
    BY <1>4 DEF Answer
  <2>2. Leads(s, q, a.next) /\ a.items \subseteq 1 .. q.n
    BY <2>1, <1>2 DEF Leads
  <2>3. QED
    BY <2>1, <2>2, UnsureSound
<1>5. CASE a \in Unseen(answers, q.n, (q.page - 1) * Size)
  <2>1. a \in Unseen(answers, r.n, Place(r))
    BY <1>1, <1>5 DEF ByPlace
  <2>2. \A b \in answers :
          /\ b = [coverage |-> b.coverage, items |-> b.items, next |-> b.next,
                  zero |-> b.zero, final |-> b.final, sure |-> b.sure]
          /\ b.items \subseteq 1 .. r.n
          /\ b.next # NoCursor => Leads(s, r, b.next)
    BY <1>1, <1>2, NumbersPage
  <2> HIDE DEF answers
  <2>3. Sound(s, r, a)
    BY <1>1, <2>1, <2>2, UnseenSound
  <2>4. QED
    BY <1>2, <2>3, ByPageSound
<1>6. QED
  BY <1>3, <1>4, <1>5 DEF haokan

-----------------------------------------------------------------------------
(* The browser *)

\* The first comments, whichever page was asked for.
LEMMA GenericSound ==
    ASSUME Bounds, NEW s \in {"haokan", "bilibili", "xiaohongshu", "xiaohongshu_guest"}, NEW q,
           Fits(s, q), NEW a \in browser_generic(q), Usable(a)
    PROVE  Sound(s, q, a)
<1> DEFINE r == ByPage(q)
<1>1. /\ Fits(s, r) /\ Placed(s, r) /\ Place(r) = ByPlace(q) /\ r.n = q.n /\ r.page = q.page
      /\ q.n \in Nat /\ (q.page = 1 => ByPlace(q) = 0)
  BY FitsByPage, Places
<1>2. s \in BrowserSources /\ s \notin {"geekpark", "weibo"}
  BY DEF BrowserSources
<1>3. CASE a = Page(q.n, {}, NoCursor, q.n = 0)
  <2>1. a.items = {} /\ a.next = NoCursor /\ a.sure = (q.n = 0)
    BY <1>3 DEF Page, Answer
  <2>2. a.sure \in BOOLEAN /\ (q.n # 0 => a.sure = FALSE) /\ a.items \subseteq 1 .. q.n
    BY <2>1
  <2>3. CASE q.n = 0
    BY <2>1, <2>2, <2>3, ZeroSound
  <2>4. CASE q.n # 0
    BY <2>1, <2>2, <2>4, UnsureSound
  <2>5. QED
    BY <2>3, <2>4
<1>4. CASE a = Page(q.n, Window(q.n, 0), Browsing(q), q.page = 1)
  <2>1. a.items = Window(q.n, 0) /\ a.next = Browsing(q) /\ a.sure = (q.page = 1)
    BY <1>4 DEF Page, Answer
  <2>2. a.sure \in BOOLEAN /\ (a.sure => q.page = 1)
    BY <2>1
  <2>3. a.next # NoCursor /\ Leads(s, r, a.next)
    BY <2>1, <1>1, <1>2 DEF Leads, Browsing, NoCursor, Cursor
  <2>4. a.items \subseteq 1 .. r.n
    BY <2>1, <1>1, Windows
  <2>5. Sound(s, r, a)
    BY <1>1, <2>1, <2>2, <2>3, <2>4, PageSound
  <2>6. QED
    BY <1>2, <2>2, <2>5, ByPageSound
<1>5. QED
  BY <1>3, <1>4, NotUsable DEF browser_generic

LEMMA GuestSound ==
    ASSUME Bounds, NEW q, Fits("kuaishou", q), NEW a \in browser_kuaishou(q), Usable(a)
    PROVE  Sound("kuaishou", q, a)
<1> DEFINE s == "kuaishou"
           r == ByPage(q)
           i == (q.page - 1) * Size
<1>1. /\ Fits(s, r) /\ Placed(s, r) /\ Place(r) = i /\ r.n = q.n /\ r.page = q.page
      /\ q.n \in Nat /\ i \in Nat /\ (q.page = 1 => i = 0)
  BY FitsByPage, Places DEF ByPlace
<1> HIDE DEF i
<1>2. s \in BrowserSources /\ s \notin {"geekpark", "weibo"} /\ Placed(s, q)
  BY DEF BrowserSources, Placed, Fits
<1>3. Leads(s, r, Browsing(q)) /\ Browsing(q) # NoCursor
  BY <1>1, <1>2 DEF Leads, Browsing, NoCursor, Cursor
<1>4. CASE q.n = 0
  <2>1. a = Zero
    BY <1>4, NotUsable DEF browser_kuaishou
  <2>2. a.items = {} /\ a.next = NoCursor /\ a.sure = TRUE
    BY <2>1 DEF Zero, Answer
  <2>3. QED
    BY <2>2, <1>4, ZeroSound
<1>5. CASE q.n # 0
  <2>1. PICK next : a = Page(q.n, Window(q.n, i), next, TRUE) /\ (next = Browsing(q) \/ (next = NoCursor /\ ~Follows(q.n, i)))
    <3>1. CASE a = Page(q.n, Window(q.n, i), IF Follows(q.n, i) THEN Browsing(q) ELSE NoCursor, TRUE)
      BY <3>1
    <3>2. CASE q.page = 1 /\ a = Page(q.n, Window(q.n, 0), Browsing(q), TRUE)
      BY <3>2, <1>1
    <3>3. QED
      BY <3>1, <3>2, <1>5, NotUsable DEF browser_kuaishou, i
  <2>2. a.items = Window(q.n, i) /\ a.next = next /\ a.sure = TRUE
    BY <2>1 DEF Page, Answer
  <2>3. a.items \subseteq 1 .. r.n
    BY <2>2, <1>1, Windows
  <2>4. (a.next # NoCursor => Leads(s, r, a.next)) /\ (a.next = NoCursor => ~Follows(q.n, i))
    BY <2>1, <2>2, <1>3
  <2>5. Sound(s, r, a)
    BY <1>1, <2>2, <2>3, <2>4, PageSound
  <2>6. QED
    BY <1>2, <2>5, ByPageSound
<1>6. QED
  BY <1>4, <1>5

LEMMA VisitorSound ==
    ASSUME Bounds, NEW s \in {"xiaohongshu", "xiaohongshu_guest"}, NEW q,
           Fits(s, q), NEW a \in browser_xiaohongshu(q), Usable(a)
    PROVE  Sound(s, q, a)
<1> DEFINE r == ByPage(q)
<1>1. CASE a \in browser_generic(q)
  BY <1>1, GenericSound
<1>2. CASE a \notin browser_generic(q)
  <2>1. ~(q.page > 1) /\ a = Page(q.n, Window(q.n, 0), NoCursor, ~Follows(q.n, 0))
    BY <1>2, NotUsable DEF browser_xiaohongshu
  <2>2. /\ Fits(s, r) /\ Placed(s, r) /\ Place(r) = 0 /\ r.n = q.n
        /\ q.n \in Nat /\ q.page = 1
    <3>1. q.n \in Nat /\ q.page = 1 /\ ByPlace(q) = 0
      BY <2>1, Places
    <3>2. QED
      BY <3>1, FitsByPage
  <2>3. a.items = Window(q.n, 0) /\ a.next = NoCursor /\ a.sure = ~Follows(q.n, 0)
    BY <2>1 DEF Page, Answer
  <2>4. a.sure \in BOOLEAN /\ (a.sure => ~Follows(q.n, 0))
    BY <2>3
  <2>5. a.items \subseteq 1 .. r.n
    BY <2>3, <2>2, Windows
  <2>6. Sound(s, r, a)
    BY <2>2, <2>3, <2>4, <2>5, PageSound
  <2>7. s \notin {"geekpark", "weibo"}
    OBVIOUS
  <2>8. QED
    BY <2>2, <2>6, <2>7, ByPageSound
<1>3. QED
  BY <1>1, <1>2

-----------------------------------------------------------------------------
(* The publishers *)

\* Pages that follow one another, pages with numbers, comments that are only
\* counted, and none that anybody could see.
ChainSources ==
    {"gelonghui", "yidian", "zaker", "dayu", "shobserver", "ijiwei", "ithome", "smzdm",
     "qq_news", "zhihu", "autohome", "qq_stock", "qq_stock_community"}
NumberSources ==
    {"nowcoder", "ximalaya", "thepaper", "acfun", "d1ev", "mydigit", "pcauto", "cheshi",
     "chooseauto", "qcwp", "buycar", "zol", "xcar", "kuai", "sina_community", "yiche",
     "eastmoney"}
CountSources ==
    {"dingnews", "yzwb", "guancha", "jike", "chemm", "jianshu", "how42", "ql1d",
     "growthhk", "ofweek", "ichaoqi", "tonghuashun", "kr36"}
HiddenSources ==
    {"tidenews", "donews", "icswb", "guanhai", "csdn"}

LEMMA ChainAnswers ==
    ASSUME NEW s \in ChainSources, NEW q, NEW a \in PublisherAnswers(s, q), Usable(a)
    PROVE  a \in Chained(q, "empty") \union Chained(q, "length") \union Chained(q, "either")
                   \union Chained(q, "mark") \union Followed(q)
<1>1. a \in gelonghui(q) \union yidian(q) \union zaker(q) \union dayu(q) \union
              shobserver(q) \union ijiwei(q) \union ithome(q) \union smzdm(q)
              \union qq_news(q) \union zhihu(q) \union autohome(q) \union
              qq_stock(q) \union qq_stock_community(q)
  BY DEF PublisherAnswers, ChainSources
<1>2. zhihu(q) = Chained(q, "mark")
  BY DEF zhihu, zhihu_page, Chained
<1>3. QED
  BY <1>1, <1>2, NotUsable
     DEF gelonghui, yidian, zaker, dayu, shobserver, ijiwei, ithome, smzdm, qq_news, autohome,
         qq_stock, qq_stock_community

LEMMA NumberAnswers ==
    ASSUME NEW s \in NumberSources, NEW q, NEW a \in PublisherAnswers(s, q), Usable(a)
    PROVE  a \in Numbered(q, "mark") \/ (~ReachesPage(q) /\ a \in OutOfReach(q))
<1>1. a \in nowcoder(q) \union ximalaya(q) \union thepaper(q) \union acfun(q) \union d1ev(q)
              \union mydigit(q) \union pcauto(q) \union cheshi(q) \union
              chooseauto(q) \union qcwp(q) \union buycar(q) \union zol(q) \union
              xcar(q) \union kuai(q) \union sina_community(q) \union yiche(q)
              \union eastmoney(q)
  BY DEF PublisherAnswers, NumberSources
<1>2. QED
  BY <1>1, NotUsable
     DEF nowcoder, ximalaya, thepaper, acfun, d1ev, mydigit, pcauto, cheshi, chooseauto, qcwp,
         buycar, zol, xcar, kuai, sina_community, yiche, eastmoney, maiche

LEMMA CountAnswers ==
    ASSUME NEW s \in CountSources, NEW q, NEW a \in PublisherAnswers(s, q), Usable(a)
    PROVE  a \in zero_or_unavailable(q)
<1>1. a \in dingnews(q) \union yzwb(q) \union guancha(q) \union jike(q) \union chemm(q)
              \union jianshu(q) \union how42(q) \union ql1d(q) \union
              growthhk(q) \union ofweek(q) \union ichaoqi(q) \union
              tonghuashun(q) \union kr36(q)
  BY DEF PublisherAnswers, CountSources
<1>2. QED
  BY <1>1, NotUsable
     DEF dingnews, yzwb, guancha, jike, chemm, jianshu, how42, ql1d, growthhk, ofweek, ichaoqi,
         tonghuashun, kr36, comment_total, news_10jqka

LEMMA HiddenAnswers ==
    ASSUME NEW s \in HiddenSources, NEW q, NEW a \in PublisherAnswers(s, q)
    PROVE  ~Usable(a)
<1>1. a \in tidenews(q) \union donews(q) \union icswb(q) \union guanhai(q) \union csdn(q)
  BY DEF PublisherAnswers, HiddenSources
<1>2. QED
  BY <1>1, NotUsable DEF tidenews, donews, icswb, guanhai, csdn

LEMMA PublisherSound ==
    ASSUME Bounds, NEW s \in Publishers, NEW q, Fits(s, q), NEW a \in PublisherAnswers(s, q), Usable(a)
    PROVE  Sound(s, q, a)
<1>1. q.cursor.stream \in Streams
  BY Places
<1>2. CASE s \in ChainSources
  <2>1. q.cursor.stream \in {"none", "after"} /\ s \in AfterSources
    BY <1>1, <1>2
       DEF Fits, Streams, ChainSources, AfterSources, PageSources, OffsetSources, BrowserSources
  <2>2. QED
    BY <1>2, <2>1, ChainAnswers, ChainedSound
<1>3. CASE s \in NumberSources
  <2>1. q.cursor.stream \in {"none", "page"} /\ s \in PageSources /\ s # "bilibili"
    BY <1>1, <1>3
       DEF Fits, Streams, NumberSources, AfterSources, PageSources, OffsetSources, BrowserSources
  <2>2. QED
    BY <1>3, <2>1, NumberAnswers, NumberedSound, OutOfReachSound
<1>4. CASE s \in CountSources
  BY <1>4, CountAnswers, NoneSound
<1>5. CASE s \in HiddenSources
  BY <1>5, HiddenAnswers
<1>6. CASE s \in {"ifeng", "news18", "dripcar"}
  <2>1. q.cursor.stream \in {"none", "page"} /\ s \in PageSources /\ s # "bilibili"
    BY <1>1, <1>6 DEF Fits, Streams, AfterSources, PageSources, OffsetSources, BrowserSources
  <2>2. a \in ifeng(q) \union news18(q) \union dripcar(q)
    BY <1>6 DEF PublisherAnswers
  <2>3. a \notin Refused
    BY NotUsable
  <2>4. a \in Numbers(q, "length") \union Numbers(q, "empty")
    BY <2>2, <2>3 DEF ifeng, news18, dripcar, Counted
  <2>5. QED
    BY <2>1, <2>4, CountedSound
<1>7. CASE s = "geekpark"
  BY <1>7, AllAtOnce DEF PublisherAnswers
<1>8. CASE s = "qctt"
  BY <1>8, OwnPage DEF PublisherAnswers
<1>9. CASE s = "autohome_forum"
  BY <1>9, ForumSound DEF PublisherAnswers
<1>10. CASE s = "sina"
  BY <1>10, SinaSound DEF PublisherAnswers
<1>11. QED
  BY <1>2, <1>3, <1>4, <1>5, <1>6, <1>7, <1>8, <1>9, <1>10
     DEF Publishers, ChainSources, NumberSources, CountSources, HiddenSources

-----------------------------------------------------------------------------
(* The platforms *)

\* kuaishou, and the newer interface of bilibili.
LEMMA CursorsSound ==
    ASSUME Bounds, NEW s \in {"douyin", "kuaishou", "bilibili"}, NEW q, Fits(s, q),
           q.cursor.stream \in {"none", "after"},
           NEW a \in IF ReachesPage(q) THEN parse_comments(q) ELSE OutOfReach(q)
    PROVE  Sound(s, q, a)
  BY ParseSound, OutOfReachSound DEF AfterSources

LEMMA DouyinSound ==
    ASSUME Bounds, NEW q, Fits("douyin", q), NEW a \in douyin(q), Usable(a)
    PROVE  Sound("douyin", q, a)
<1>1. q.cursor.stream \in {"none", "after"}
  BY Places DEF Fits, Streams, PageSources, OffsetSources, BrowserSources
<1>2. CASE a = [Answer("partial", {}, NoCursor) EXCEPT !.sure = FALSE]
  <2>1. a.items = {} /\ a.next = NoCursor /\ a.sure = FALSE
    BY <1>2 DEF Answer
  <2>2. QED
    BY <2>1, UnsureSound
<1>3. CASE a \in IF ReachesPage(q) THEN parse_comments(q) ELSE OutOfReach(q)
  BY <1>1, <1>3, CursorsSound
<1>4. QED
  BY <1>2, <1>3, NotUsable DEF douyin

LEMMA KuaishouSound ==
    ASSUME Bounds, NEW q, Fits("kuaishou", q), NEW a \in kuaishou(q), Usable(a)
    PROVE  Sound("kuaishou", q, a)
<1>1. q.cursor.stream \in {"none", "after", "browser"}
  BY Places DEF Fits, Streams, PageSources, OffsetSources
<1>2. CASE q.cursor.stream = "browser"
  <2>1. a \in Foreign(q)
    BY <1>2, NotUsable DEF kuaishou
  <2>2. QED
    BY <2>1, ForeignSound
<1>3. CASE q.cursor.stream # "browser"
  <2>1. a \in IF ReachesPage(q) THEN parse_comments(q) ELSE OutOfReach(q)
    BY <1>3, NotUsable DEF kuaishou
  <2>2. QED
    BY <1>1, <1>3, <2>1, CursorsSound
<1>4. QED
  BY <1>2, <1>3

LEMMA BilibiliSound ==
    ASSUME Bounds, NEW q, Fits("bilibili", q), NEW a \in bilibili(q), Usable(a)
    PROVE  Sound("bilibili", q, a)
<1>1. q.cursor.stream \in {"none", "after", "browser", "page"}
  BY Places DEF Fits, Streams, OffsetSources
<1>2. a \in fetch_comments(q)
  BY NotUsable DEF bilibili, fetch_video, fetch_article, fetch_opus, fetch_opus_detail
<1>3. CASE a \in fetch_legacy_comments(q)
  BY <1>3, LegacySound
<1>4. CASE a \notin fetch_legacy_comments(q) /\ q.cursor.stream \in {"browser", "page"}
  <2>1. a \in Foreign(q)
    BY <1>2, <1>4, NotUsable DEF fetch_comments
  <2>2. QED
    BY <2>1, ForeignSound
<1>5. CASE a \notin fetch_legacy_comments(q) /\ q.cursor.stream \notin {"browser", "page"}
  <2>1. a \in IF ReachesPage(q) THEN parse_comments(q) ELSE OutOfReach(q)
    BY <1>2, <1>5, NotUsable DEF fetch_comments
  <2>2. QED
    BY <1>1, <1>5, <2>1, CursorsSound
<1>6. QED
  BY <1>3, <1>4, <1>5

\* An answer for good has what it had.
LEMMA FinalSound ==
    ASSUME Bounds, NEW s, NEW q, NEW a, NEW b,
           b = [coverage |-> b.coverage, items |-> b.items, next |-> b.next, zero |-> b.zero,
                final |-> b.final, sure |-> b.sure],
           a = [b EXCEPT !.final = TRUE], Sound(s, q, b)
    PROVE  Sound(s, q, a)
<1>1. a.items = b.items /\ a.next = b.next /\ a.sure = b.sure
  OBVIOUS
<1>2. NextRequest(q, a) = NextRequest(q, b)
  BY <1>1 DEF NextRequest
<1>3. Fitting(s, q, a) /\ (OnPage(q, b) => OnPage(q, a)) /\ (Whole(s, q, b) => Whole(s, q, a))
  BY <1>1, <1>2, Zenon DEF Sound, Fitting, OnPage, Whole
<1>4. QED
  BY <1>1, <1>3, Zenon DEF Sound

LEMMA XiaohongshuSound ==
    ASSUME Bounds, NEW q, Fits("xiaohongshu", q), NEW a \in xiaohongshu(q), Usable(a)
    PROVE  Sound("xiaohongshu", q, a)
<1> DEFINE answers == IF q.cursor.stream = "browser" THEN Foreign(q)
                      ELSE IF ReachesPage(q) THEN Advancing(Chain(q, "mark"), q.cursor)
                      ELSE OutOfReach(q)
<1>1. q.cursor.stream \in {"none", "after", "browser"} /\ "xiaohongshu" \in AfterSources
  BY Places DEF Fits, Streams, PageSources, OffsetSources, AfterSources
<1>2. PICK b \in answers : a = [b EXCEPT !.final = TRUE]
  BY NotUsable DEF xiaohongshu
<1>3. CASE q.cursor.stream = "browser"
  <2>1. b \in Foreign(q)
    BY <1>3
  <2>2. PICK i \in 0 .. q.n : b = Page(q.n, Window(q.n, i), NoCursor, FALSE)
    BY <2>1 DEF Foreign
  <2>3. b = [coverage |-> b.coverage, items |-> b.items, next |-> b.next, zero |-> b.zero,
             final |-> b.final, sure |-> b.sure]
    BY <2>2 DEF Page, Answer
  <2>4. QED
    BY <1>2, <2>1, <2>3, ForeignSound, FinalSound
<1>4. CASE q.cursor.stream # "browser" /\ ReachesPage(q)
  <2>1. b \in Chain(q, "mark") /\ require_page(b.items, b.next, q.cursor)
    BY <1>4 DEF Advancing
  <2>2. Sound("xiaohongshu", q, b)
    BY <1>1, <1>4, <2>1, ChainSound
  <2>3. q.n \in Nat /\ AfterPlace(q) \in Nat
    BY <1>1, <1>4, Places, ChainPlace
  <2>4. b = [coverage |-> b.coverage, items |-> b.items, next |-> b.next, zero |-> b.zero,
             final |-> b.final, sure |-> b.sure]
    BY <2>1, <2>3, SentPage DEF Chain
  <2>5. QED
    BY <1>2, <2>2, <2>4, FinalSound
<1>5. CASE q.cursor.stream # "browser" /\ ~ReachesPage(q)
  <2>1. b \in OutOfReach(q)
    BY <1>5
  <2>2. b = Page(q.n, {}, NoCursor, TRUE)
    BY <2>1 DEF OutOfReach
  <2>3. b = [coverage |-> b.coverage, items |-> b.items, next |-> b.next, zero |-> b.zero,
             final |-> b.final, sure |-> b.sure]
    BY <2>2 DEF Page, Answer
  <2>4. QED
    BY <1>2, <1>5, <2>1, <2>3, OutOfReachSound, FinalSound
<1>6. QED
  BY <1>3, <1>4, <1>5

LEMMA OffsetAnswers ==
    ASSUME NEW s \in OffsetSources, NEW q, NEW a \in PlatformAnswers(s, q), Usable(a)
    PROVE  a \in Offsets(q) /\ require_page(a.items, a.next, Offset(q))
<1>1. a \in weitoutiao(q) \union toutiao(q) \union dongchedi(q) \union netease(q) \union baijiahao(q)
  BY DEF PlatformAnswers, OffsetSources
<1>2. a \notin Refused /\ a # Unavailable
  BY NotUsable
<1>3. QED
  BY <1>1, <1>2 DEF weitoutiao, toutiao, dongchedi, netease, baijiahao, fetch_comment_page,
                    parse_comment_page, Advancing, Checked

LEMMA PlatformSound ==
    ASSUME Bounds, NEW s \in Platforms, NEW q, Fits(s, q), NEW a \in PlatformAnswers(s, q), Usable(a)
    PROVE  Sound(s, q, a)
<1>1. CASE s \in OffsetSources
  BY <1>1, OffsetAnswers, OffsetsSound
<1>2. CASE s \in {"sohu", "sohu_auto"}
  <2>1. a \in sohu(q)
    BY <1>2, NotUsable DEF PlatformAnswers, fetch_auto_article
  <2>2. QED
    BY <1>2, <2>1, SohuSound
<1>3. CASE s = "sohu_client"
  BY <1>3, ClientSound DEF PlatformAnswers
<1>4. CASE s = "xueqiu"
  <2>1. q.cursor.stream \in {"none", "after"} /\ s \in AfterSources
    BY <1>4, Places DEF Fits, Streams, AfterSources, PageSources, OffsetSources, BrowserSources
  <2>2. a \in Chained(q, "mark")
    BY <1>4 DEF PlatformAnswers, xueqiu
  <2>3. QED
    BY <2>1, <2>2, ChainedSound
<1>5. CASE s = "haokan"
  BY <1>5, HaokanSound DEF PlatformAnswers
<1>6. CASE s = "douyin"
  BY <1>6, DouyinSound DEF PlatformAnswers
<1>7. CASE s = "weibo"
  BY <1>7, WeiboSound DEF PlatformAnswers
<1>8. CASE s = "kuaishou"
  BY <1>8, KuaishouSound DEF PlatformAnswers
<1>9. CASE s = "bilibili"
  BY <1>9, BilibiliSound DEF PlatformAnswers
<1>10. CASE s = "xiaohongshu"
  BY <1>10, XiaohongshuSound DEF PlatformAnswers
<1>11. CASE s = "xiaohongshu_guest"
  BY <1>11, NotUsable DEF PlatformAnswers, xiaohongshu_guest
<1>12. QED
  BY <1>1, <1>2, <1>3, <1>4, <1>5, <1>6, <1>7, <1>8, <1>9, <1>10, <1>11
     DEF Platforms, OffsetSources

\* What the browser adds.
LEMMA BrowserSound ==
    ASSUME Bounds, NEW s \in Browsable, NEW q, Fits(s, q), NEW a \in BrowserAnswers(s, q), Usable(a)
    PROVE  Sound(s, q, a)
<1> DEFINE Again == {"toutiao", "weitoutiao", "xueqiu", "sohu", "sohu_auto", "sohu_client"}
<1>1. CASE s \in Again
  <2>1. a \in PlatformAnswers(s, ByPage(q))
    <3>1. CASE s = "toutiao"
      <4>1. a \in toutiao(ByPage(q))
        BY <3>1, NotUsable DEF BrowserAnswers, browser_rerun
      <4>2. PlatformAnswers("toutiao", ByPage(q)) = toutiao(ByPage(q))
        BY DEF PlatformAnswers
      <4>3. QED
        BY <3>1, <4>1, <4>2
    <3>2. CASE s # "toutiao"
      <4>1. a \in browser_rerun(PlatformAnswers(s, ByPage(q)))
        BY <1>1, <3>2 DEF BrowserAnswers
      <4>2. QED
        BY <4>1, NotUsable DEF browser_rerun
    <3>3. QED
      BY <3>1, <3>2
  <2>2. s \in Platforms /\ s \notin {"geekpark", "weibo", "bilibili"} /\ Fits(s, ByPage(q))
    BY <1>1, FitsByPage DEF Platforms
  <2>3. Sound(s, ByPage(q), a)
    BY <2>1, <2>2, PlatformSound
  <2>4. Placed(s, q)
    BY <2>2 DEF Placed, Fits
  <2>5. QED
    BY <2>2, <2>3, <2>4, ByPageSound
<1>2. CASE s \in {"haokan", "bilibili"}
  <2>1. a \in browser_generic(q)
    BY <1>2 DEF BrowserAnswers
  <2>2. QED
    BY <1>2, <2>1, GenericSound
<1>3. CASE s = "kuaishou"
  BY <1>3, GuestSound DEF BrowserAnswers
<1>4. CASE s \in {"xiaohongshu", "xiaohongshu_guest"}
  <2>1. a \in browser_xiaohongshu(q)
    BY <1>4 DEF BrowserAnswers
  <2>2. QED
    BY <1>4, <2>1, VisitorSound
<1>5. QED
  BY <1>1, <1>2, <1>3, <1>4 DEF Browsable

\* Whatever a request comes to.
LEMMA CrawlerSound ==
    ASSUME Bounds, source \in Sources, NEW q, Fits(source, q), NEW a \in CrawlerAnswers(q), Usable(a)
    PROVE  Sound(source, q, a)
<1>1. CASE a \in ProtocolAnswers(q)
  BY <1>1, PublisherSound, PlatformSound DEF ProtocolAnswers, Sources
<1>2. CASE a \notin ProtocolAnswers(q)
  <2>1. a \in BrowserAnswers(source, q) /\ source \in Browsable
    BY <1>2 DEF CrawlerAnswers, NeedsBrowser
  <2>2. QED
    BY <2>1, BrowserSound
<1>3. QED
  BY <1>1, <1>2

-----------------------------------------------------------------------------
(* The walk *)

\* More comments: the request is still one, nothing of what there was gets behind
\* it, and behind a cursor that names a comment is all that came.
LEMMA PostedSince ==
    ASSUME Bounds, NEW s, NEW q, Fits(s, q), NEW m \in q.n .. MaxPosted,
           NEW r, r = Request(m, q.page, q.cursor)
    PROVE  /\ Fits(s, r)
           /\ \A c \in 1 .. q.n : c \in Behind(s, r) => c \in Behind(s, q)
           /\ q.cursor.stream = "after" =>
                \A c \in 1 .. m : c > q.n \/ c \in Behind(s, q) => c \in Behind(s, r)
<1>1. r.n = m /\ r.page = q.page /\ r.cursor = q.cursor /\ r = Request(r.n, r.page, r.cursor)
  BY DEF Request
<1>2. q.n \in Nat /\ r.n \in 0 .. MaxPosted /\ m >= q.n /\ ByPlace(q) \in Nat /\ Place(q) \in Nat
  <2>1. q.n \in 0 .. MaxPosted /\ MaxPosted \in Nat /\ ByPlace(q) \in Nat /\ Place(q) \in Nat
    BY Places DEF Fits, Bounds
  <2>2. QED
    BY <1>1, <2>1
<1>3. ByPlace(r) = ByPlace(q)
  BY <1>1 DEF ByPlace
<1>4. /\ q.cursor.stream = "after" =>
           Place(r) = Place(q) + (m - q.n) /\ q.cursor.at \in 1 .. q.n /\ q.cursor.at \in 1 .. r.n
      /\ q.cursor.stream # "after" => Place(r) = Place(q)
  BY <1>1, <1>2, <1>3 DEF Place, PlaceAfter, Fits
<1>5. Fits(s, r)
  BY <1>1, <1>2, <1>3, <1>4 DEF Fits
<1>6. ASSUME NEW c \in 1 .. q.n, c \in Behind(s, r) PROVE c \in Behind(s, q)
  <2>2. ~(s = "bilibili" /\ q.cursor.stream = "page")
    BY <1>1, <1>6 DEF Behind
  <2>3. CASE q.cursor.stream = "hot"
    BY <1>1, <1>3, <1>6, <2>2, <2>3 DEF Behind
  <2>4. CASE q.cursor.stream # "hot"
    <3>1. r.n - c < Place(r)
      BY <1>1, <1>6, <2>2, <2>4 DEF Behind
    <3>2. q.n - c < Place(q)
      BY <3>1, <1>1, <1>2, <1>4
    <3>3. QED
      BY <2>2, <2>4, <3>2 DEF Behind
  <2>5. QED
    BY <2>3, <2>4
<1>7. ASSUME q.cursor.stream = "after", NEW c \in 1 .. m, c > q.n \/ c \in Behind(s, q)
      PROVE  c \in Behind(s, r)
  <2>1. Place(q) = q.n - q.cursor.at + 1 /\ Place(r) = r.n - q.cursor.at + 1
    BY <1>1, <1>7 DEF Place, PlaceAfter
  <2>2. c > q.n \/ q.n - c < Place(q)
    BY <1>7 DEF Behind
  <2>3. r.n - c < Place(r)
    BY <1>1, <1>2, <1>4, <1>7, <2>1, <2>2
  <2>4. QED
    BY <1>1, <1>7, <2>3 DEF Behind
<1>8. QED
  BY <1>5, <1>6, <1>7

\* A first request fits, and nothing is behind it.
LEMMA FirstRequest ==
    ASSUME Bounds, NEW s, NEW n \in 0 .. MaxPosted, NEW p \in Nat \ {0},
           NEW q, q = Request(n, p, NoCursor)
    PROVE  Fits(s, q) /\ Exact(q) /\ (p = 1 => Behind(s, q) = {})
<1>1. /\ q.n = n /\ q.page = p /\ q.cursor = NoCursor /\ q = Request(q.n, q.page, q.cursor)
      /\ NoCursor \in Cursors /\ NoCursor.stream = "none"
  BY DEF Request, NoCursor, Cursors, Streams
<1>2. Fits(s, q) /\ Exact(q)
  BY <1>1 DEF Fits, Exact
<1>3. ASSUME p = 1 PROVE Behind(s, q) = {}
  <2>1. Placed(s, q) /\ Place(q) = 0
    BY <1>1, <1>2, <1>3, Places DEF Placed
  <2>2. ASSUME NEW c \in 1 .. q.n PROVE ~(q.n - c < 0)
    BY <1>1 DEF Bounds
  <2>3. QED
    BY <2>1, <2>2, BehindPlaced
<1>4. QED
  BY <1>2, <1>3

LEMMA Initially == Bounds /\ CommentsInit => IInv
<1> SUFFICES ASSUME Bounds, CommentsInit PROVE IInv
  OBVIOUS
<1>1. /\ source \in Sources /\ mode \in {"walk", "single"} /\ posted \in 0 .. MaxPosted
      /\ before = 0 /\ other = NoRequest /\ cursor = NoCursor /\ got = {}
      /\ taken = [page |-> 0, items |-> {}, n |-> 0]
      /\ end = "none" /\ order = "same" /\ doubt = FALSE
      /\ MaxPages \in Nat /\ MaxPosted \in Nat /\ Size \in Nat \ {0}
  BY DEF CommentsInit, Bounds
<1>2. page \in 1 .. MaxPages + 1 /\ page \in Nat \ {0} /\ (mode = "walk" => page = 1)
  BY <1>1 DEF CommentsInit
<1>3. NoCursor \in Cursors
  BY DEF NoCursor, Cursors, Streams
<1>4. CommentsTypeOK
  <2>1. taken.page \in 0 .. MaxPages + 1 /\ taken.items \subseteq got /\ got \subseteq 1 .. posted
        /\ taken.n \in 0 .. posted
    BY <1>1
  <2>2. other.n \in 0 .. posted /\ other.page \in 0 .. MaxPages + 1 /\ other.cursor \in Cursors
    BY <1>1, <1>3 DEF NoRequest, Request
  <2>3. doubt \in BOOLEAN
    BY DEF CommentsInit
  <2>4. before \in 0 .. posted /\ cursor \in Cursors /\ order \in Orders
    BY <1>1, <1>3 DEF Orders
  <2>5. QED
    BY <1>1, <1>2, <2>1, <2>2, <2>3, <2>4 DEF CommentsTypeOK
<1>5. ASSUME NEW n \in 0 .. posted PROVE Fits(source, At(n)) /\ Exact(At(n))
  <2>1. n \in 0 .. MaxPosted /\ At(n) = Request(n, page, NoCursor)
    BY <1>1 DEF At
  <2>2. QED
    BY <1>2, <2>1, FirstRequest
<1>6. Requested /\ Exactly
  BY <1>1, <1>5 DEF Requested, Exactly
<1>7. OtherRequested /\ FirstOne /\ Collected
  BY <1>1, <1>2 DEF OtherRequested, FirstOne, Collected
<1>8. WalkHasAll /\ InPlace
  BY <1>1 DEF WalkHasAll, InPlace
<1>9. QED
  BY <1>4, <1>6, <1>7, <1>8 DEF IInv

\* A request that is answered.
LEMMA AnswerableFits ==
    ASSUME Bounds, IInv, end = "none", NEW q \in Answerable
    PROVE  /\ q = At(q.n) /\ q.n \in 0 .. posted /\ q.page = page /\ q.cursor = cursor
           /\ Fits(source, q)
<1>1. /\ posted \in Nat /\ page \in Nat \ {0} /\ taken.n \in 0 .. posted
  BY DEF IInv, CommentsTypeOK, Bounds
<1>2. CASE q = Asked
  <2>1. q = At(posted) /\ q.n = posted /\ q.page = page /\ q.cursor = cursor
    BY <1>2 DEF Asked, At, Request
  <2>2. QED
    BY <1>1, <2>1 DEF IInv, Requested
<1>3. CASE q = other /\ q \in [n : 0 .. posted, page : {page}, cursor : {cursor}]
  <2>1. q = At(q.n) /\ q.n \in 0 .. posted /\ q.page = page /\ q.cursor = cursor
    BY <1>3 DEF At, Request
  <2>2. other # NoRequest
    BY <1>1, <1>3, <2>1 DEF NoRequest, Request
  <2>3. QED
    BY <1>3, <2>1, <2>2 DEF IInv, OtherRequested
<1>4. QED
  BY <1>2, <1>3 DEF Answerable

\* What an answer that is taken brings.
LEMMA TakenAnswer ==
    ASSUME Bounds, IInv, end = "none", NEW q \in Answerable, NEW a \in CrawlerAnswers(q), Usable(a)
    PROVE  a.items \subseteq 1 .. q.n /\ a.sure \in BOOLEAN /\ Sound(source, q, a)
<1>1. source \in Sources /\ Fits(source, q)
  BY AnswerableFits DEF IInv, CommentsTypeOK
<1>2. Sound(source, q, a)
  BY <1>1, CrawlerSound
<1>3. QED
  BY <1>2 DEF Sound, Fitting

\* Its comments are those of its page.
LEMMA TakenInPlace ==
    ASSUME Bounds, IInv, end = "none", NEW q \in Answerable, NEW a \in CrawlerAnswers(q), Usable(a),
           TakeComments(q, a)
    PROVE  InPlace'
<1>1. /\ taken' = [page |-> page, items |-> a.items, n |-> q.n] /\ doubt' = (doubt \/ ~a.sure)
      /\ source' = source /\ before' = (IF taken.page = 0 THEN q.n ELSE before)
  BY DEF TakeComments
<1>2. SUFFICES ASSUME order' = "same", ~doubt', source # "geekpark"
               PROVE  \/ a.items \subseteq Window(before', (page - 1) * Size)
                      \/ a.items \subseteq HotWindow(before', (page - 1) * Size)
  BY <1>1 DEF InPlace
<1>3. q.n = before' /\ Exact(q)
  <2>1. CASE taken.page = 0
    <3>1. cursor = NoCursor
      BY <2>1 DEF IInv, FirstOne
    <3>2. QED
      BY <1>1, <2>1, <3>1, AnswerableFits DEF Exact, NoCursor
  <2>2. CASE taken.page # 0
    <3>1. order = "same" /\ q.n = taken.n
      BY <1>2, <2>2 DEF TakeComments
    <3>2. taken.page > 0
      BY <2>2 DEF IInv, CommentsTypeOK, Bounds
    <3>3. Exact(At(before)) /\ taken.n = before
      BY <3>1, <3>2 DEF IInv, Exactly
    <3>4. QED
      BY <1>1, <2>2, <3>1, <3>3, AnswerableFits
  <2>3. QED
    BY <2>1, <2>2
<1>4. OnPage(q, a)
  BY <1>1, <1>2, <1>3, TakenAnswer DEF Sound
<1>5. QED
  BY <1>3, <1>4, AnswerableFits DEF OnPage, ByPlace

\* What is behind a request that is answered was behind the last page, or was
\* not there yet.
LEMMA StillBehind ==
    ASSUME Bounds, IInv, end = "none", NEW q \in Answerable, q.n = taken.n \/ ~IsOlder(q),
           NEW c \in 1 .. taken.n, c <= q.n => c \in Behind(source, q)
    PROVE  c \in Behind(source, At(taken.n))
<1> DEFINE r == At(taken.n)
<1>1. /\ q = At(q.n) /\ q.n \in 0 .. posted /\ Fits(source, q)
      /\ taken.n \in 0 .. posted /\ posted \in 0 .. MaxPosted /\ MaxPosted \in Nat
  BY AnswerableFits DEF IInv, CommentsTypeOK, Bounds
<1>2. r.n = taken.n /\ q = Request(q.n, r.page, r.cursor) /\ r = Request(taken.n, q.page, q.cursor)
  BY <1>1 DEF At, Request
<1>3. Fits(source, r)
  BY <1>1 DEF IInv, Requested
<1>4. CASE q.n >= taken.n
  <2>1. q.n \in r.n .. MaxPosted /\ c \in Behind(source, q) /\ c \in 1 .. r.n
    BY <1>1, <1>2, <1>4
  <2>2. QED
    BY <1>2, <1>3, <2>1, PostedSince
<1>5. CASE q.n < taken.n
  <2>1. q.cursor.stream = "after"
    BY <1>5, <1>1 DEF IsOlder
  <2>2. taken.n \in q.n .. MaxPosted
    BY <1>1, <1>5
  <2>3. c > q.n \/ c \in Behind(source, q)
    BY <1>1
  <2>4. QED
    BY <1>1, <1>2, <2>1, <2>2, <2>3, PostedSince
<1>6. QED
  BY <1>1, <1>4, <1>5

\* With a page there is everything up to the next request, or all there is.
LEMMA TakenWhole ==
    ASSUME Bounds, IInv, end = "none", mode = "walk", NEW q \in Answerable,
           NEW a \in CrawlerAnswers(q), Usable(a), TakeComments(q, a), ~doubt', order' # "older",
           NEW c \in 1 .. before',
           c <= q.n => c \in IF a.next = NoCursor THEN 1 .. q.n ELSE Behind(source, NextRequest(q, a))
    PROVE  c \in got'
<1>1. ~doubt /\ a.sure /\ got' = got \union a.items
  BY DEF TakeComments
<1>2. q = At(q.n) /\ q.page = page /\ q.cursor = cursor /\ q.n \in Nat
  BY AnswerableFits DEF IInv, CommentsTypeOK, Bounds
<1>3. Begun(source, q)
  BY <1>2 DEF IInv, FirstOne, Begun
<1>4. Whole(source, q, a)
  BY <1>1, <1>3, TakenAnswer DEF Sound
<1>5. c <= q.n => c \in Behind(source, q) \union a.items
  BY <1>4 DEF Whole
<1>6. CASE taken.page = 0
  <2>1. page = 1 /\ cursor = NoCursor /\ before' = q.n
    BY <1>6 DEF IInv, FirstOne, TakeComments
  <2>2. q.n \in 0 .. MaxPosted
    BY AnswerableFits DEF Fits
  <2>3. Behind(source, q) = {}
    BY <1>2, <2>1, <2>2, FirstRequest DEF At
  <2>4. QED
    BY <1>1, <1>2, <1>5, <2>1, <2>3
<1>7. CASE taken.page # 0 /\ c \notin a.items
  <2>1. order # "older" /\ (q.n = taken.n \/ ~IsOlder(q)) /\ before' = before
    BY <1>7 DEF TakeComments
  <2>2. ASSUME c <= taken.n PROVE c \in Behind(source, At(taken.n))
    <3>1. c \in 1 .. taken.n
      BY <2>2 DEF IInv, CommentsTypeOK
    <3>2. QED
      BY <1>5, <1>7, <2>1, <3>1, StillBehind
  <2>3. c \in got
    BY <1>1, <2>1, <2>2 DEF IInv, Collected
  <2>4. QED
    BY <1>1, <2>3
<1>8. QED
  BY <1>1, <1>6, <1>7

LEMMA PostStep ==
    ASSUME Bounds, IInv, Post
    PROVE  IInv'
<1>1. /\ end = "none" /\ posted < MaxPosted /\ posted' = posted + 1
      /\ source' = source /\ mode' = mode /\ before' = before /\ page' = page /\ cursor' = cursor
      /\ got' = got /\ taken' = taken /\ end' = end /\ doubt' = doubt /\ other' = other /\ order' = order
  BY DEF Post
<1>2. /\ posted \in 0 .. MaxPosted /\ MaxPosted \in Nat /\ got \subseteq 1 .. posted
      /\ before \in 0 .. posted /\ taken.n \in 0 .. posted /\ other.n \in 0 .. posted
  BY DEF IInv, CommentsTypeOK, Bounds
<1>3. /\ posted' \in 0 .. MaxPosted /\ got \subseteq 1 .. posted'
      /\ before \in 0 .. posted' /\ taken.n \in 0 .. posted' /\ other.n \in 0 .. posted'
  BY <1>1, <1>2
<1>4. CommentsTypeOK'
  BY <1>1, <1>3 DEF IInv, CommentsTypeOK
<1>5. Requested'
  <2>1. SUFFICES ASSUME NEW n \in taken.n .. posted + 1 PROVE Fits(source, At(n))
    BY <1>1 DEF Requested, At
  <2>2. Fits(source, At(posted)) /\ At(posted).n = posted
    BY <1>1, <1>2 DEF IInv, Requested, At, Request
  <2>3. CASE n = posted + 1
    <3>1. n \in posted .. MaxPosted /\ At(n) = Request(n, At(posted).page, At(posted).cursor)
      BY <1>1, <1>2, <2>3 DEF At, Request
    <3>2. QED
      BY <2>2, <3>1, PostedSince
  <2>4. CASE n # posted + 1
    <3>1. n \in taken.n .. posted
      BY <1>2, <2>4
    <3>2. QED
      BY <1>1, <3>1 DEF IInv, Requested
  <2>5. QED
    BY <2>3, <2>4
<1>6. OtherRequested' /\ Exactly' /\ FirstOne' /\ Collected'
  BY <1>1 DEF IInv, OtherRequested, Exactly, FirstOne, Collected, At
<1>7. WalkHasAll' /\ InPlace'
  BY <1>1 DEF IInv, WalkHasAll, InPlace
<1>8. QED
  BY <1>4, <1>5, <1>6, <1>7 DEF IInv

\* Another caller's request is one of the source.
LEMMA AskOtherStep ==
    ASSUME Bounds, IInv, AskOther
    PROVE  IInv'
<1>1. /\ end = "none" /\ posted' = posted
      /\ source' = source /\ mode' = mode /\ before' = before /\ page' = page /\ cursor' = cursor
      /\ got' = got /\ taken' = taken /\ end' = end /\ doubt' = doubt /\ order' = order
  BY DEF AskOther
<1>2. /\ posted \in 0 .. MaxPosted /\ MaxPosted \in Nat /\ MaxPages \in Nat
      /\ other.n \in 0 .. posted /\ other.page \in 0 .. MaxPages + 1 /\ source \in Sources
  BY DEF IInv, CommentsTypeOK, Bounds
<1>3. Fits(source, other') /\ other'.n = posted /\ other'.page \in 0 .. MaxPages + 1
  <2>1. CASE other' = Request(posted, 1, NoCursor)
    <3>0. 1 \in Nat \ {0}
      OBVIOUS
    <3>1. Fits(source, other')
      BY <1>2, <2>1, <3>0, FirstRequest
    <3>2. other'.n = posted /\ other'.page = 1
      BY <2>1 DEF Request
    <3>3. QED
      BY <1>2, <3>1, <3>2
  <2>2. ASSUME other # NoRequest, other.page < MaxPages,
               NEW a \in CrawlerAnswers(other), Usable(a), a.next # NoCursor,
               other' = Request(posted, other.page + 1, a.next)
        PROVE  Fits(source, other') /\ other'.n = posted /\ other'.page \in 0 .. MaxPages + 1
    <3>1. Fits(source, other)
      BY <2>2 DEF IInv, OtherRequested
    <3>2. Fits(source, NextRequest(other, a))
      BY <1>2, <2>2, <3>1, CrawlerSound DEF Sound, Fitting
    <3>3. /\ NextRequest(other, a).n = other.n /\ posted \in other.n .. MaxPosted
          /\ other' = Request(posted, NextRequest(other, a).page, NextRequest(other, a).cursor)
      BY <1>2, <2>2 DEF NextRequest, Request
    <3>4. Fits(source, other')
      BY <3>2, <3>3, PostedSince
    <3>5. other'.n = posted /\ other'.page = other.page + 1
      BY <2>2 DEF Request
    <3>6. QED
      BY <1>2, <2>2, <3>4, <3>5
  <2>3. QED
    BY <2>1, <2>2 DEF AskOther
<1>4. CommentsTypeOK'
  <2>1. other'.cursor \in Cursors
    BY <1>3 DEF Fits
  <2>2. QED
    BY <1>1, <1>2, <1>3, <2>1 DEF IInv, CommentsTypeOK
<1>5. OtherRequested'
  BY <1>1, <1>3 DEF OtherRequested
<1>6. Requested' /\ Exactly' /\ FirstOne' /\ Collected'
  BY <1>1 DEF IInv, Requested, Exactly, FirstOne, Collected, At
<1>7. WalkHasAll' /\ InPlace'
  BY <1>1 DEF IInv, WalkHasAll, InPlace
<1>8. QED
  BY <1>4, <1>5, <1>6, <1>7 DEF IInv

\* The types, when a page is taken.
LEMMA TakenTypes ==
    ASSUME Bounds, IInv, end = "none", NEW q \in Answerable, NEW a \in CrawlerAnswers(q), Usable(a),
           TakeComments(q, a), page' \in 1 .. MaxPages + 1, cursor' \in Cursors,
           end' \in {"none", "refused", "partial", "page", "last", "complete"}
    PROVE  CommentsTypeOK' /\ OtherRequested'
<1>1. /\ source' = source /\ mode' = mode /\ posted' = posted /\ other' = other
      /\ got' = got \union a.items /\ taken' = [page |-> page, items |-> a.items, n |-> q.n]
      /\ before' = (IF taken.page = 0 THEN q.n ELSE before)
  BY DEF TakeComments
<1>2. doubt' \in BOOLEAN
  BY DEF TakeComments
<1>3. CommentsTypeOK /\ q.n \in 0 .. posted /\ a.items \subseteq 1 .. q.n
  BY AnswerableFits, TakenAnswer DEF IInv
<1>4. got' \subseteq 1 .. posted' /\ taken'.items \subseteq got' /\ before' \in 0 .. posted'
      /\ taken'.n \in 0 .. posted'
  <2>1. posted \in Nat /\ q.n \in Nat /\ q.n <= posted /\ a.items \subseteq 1 .. posted
    BY <1>3 DEF CommentsTypeOK, Bounds
  <2>2. got' \subseteq 1 .. posted' /\ taken'.items \subseteq got'
    BY <1>1, <1>3, <2>1 DEF CommentsTypeOK
  <2>3. before' \in 0 .. posted'
    BY <1>1, <1>3 DEF CommentsTypeOK
  <2>4. taken'.n \in 0 .. posted'
    BY <1>1, <1>3
  <2>5. QED
    BY <2>2, <2>3, <2>4
<1>5. taken'.page \in 0 .. MaxPages + 1
  BY <1>1, <1>3 DEF CommentsTypeOK, Bounds
<1>6. order' \in Orders
  BY <1>3 DEF TakeComments, CommentsTypeOK, Orders
<1>7. OtherRequested'
  BY <1>1 DEF IInv, OtherRequested
<1>8. QED
  BY <1>1, <1>2, <1>3, <1>4, <1>5, <1>6, <1>7 DEF CommentsTypeOK

\* A cursor of an answer is one.
LEMMA TakenCursor ==
    ASSUME Bounds, IInv, end = "none", NEW q \in Answerable, NEW a \in CrawlerAnswers(q), Usable(a)
    PROVE  a.next \in Cursors
<1>1. CASE a.next = NoCursor
  BY <1>1 DEF NoCursor, Cursors, Streams
<1>2. CASE a.next # NoCursor
  <2>1. Fits(source, NextRequest(q, a))
    BY <1>2, TakenAnswer DEF Sound, Fitting
  <2>2. QED
    BY <2>1 DEF Fits, NextRequest, Request
<1>3. QED
  BY <1>1, <1>2

LEMMA TakeSingleStep ==
    ASSUME Bounds, IInv, TakeSingle
    PROVE  IInv'
<1>0. PICK q \in Answerable : \E a \in CrawlerAnswers(q) : Usable(a) /\ TakeComments(q, a) /\ cursor' = a.next
  BY DEF TakeSingle
<1>1. PICK a \in CrawlerAnswers(q) : Usable(a) /\ TakeComments(q, a) /\ cursor' = a.next
  BY <1>0
<1>2. end = "none" /\ mode = "single" /\ end' = "page" /\ page' = page /\ mode' = mode
  BY <1>1 DEF TakeSingle, TakeComments
<1>3. page' \in 1 .. MaxPages + 1 /\ cursor' \in Cursors
  BY <1>1, <1>2, TakenCursor DEF IInv, CommentsTypeOK
<1>4. CommentsTypeOK' /\ OtherRequested'
  BY <1>1, <1>2, <1>3, TakenTypes
<1>5. InPlace'
  BY <1>1, <1>2, TakenInPlace
<1>6. Requested' /\ Exactly' /\ FirstOne' /\ Collected' /\ WalkHasAll'
  BY <1>2 DEF Requested, Exactly, FirstOne, Collected, WalkHasAll
<1>7. QED
  BY <1>4, <1>5, <1>6 DEF IInv

LEMMA TakePageStep ==
    ASSUME Bounds, IInv, TakePage
    PROVE  IInv'
<1>0. PICK q \in Answerable : \E a \in CrawlerAnswers(q) :
        /\ Usable(a) /\ NextPage(a) # 0 /\ TakeComments(q, a)
        /\ page' = NextPage(a) /\ cursor' = a.next
  BY DEF TakePage
<1>1. PICK a \in CrawlerAnswers(q) :
        /\ Usable(a) /\ NextPage(a) # 0 /\ TakeComments(q, a)
        /\ page' = NextPage(a) /\ cursor' = a.next
  BY <1>0
<1>2. /\ end = "none" /\ mode = "walk" /\ page <= MaxPages /\ end' = "none"
      /\ source' = source /\ mode' = mode /\ posted' = posted
      /\ taken' = [page |-> page, items |-> a.items, n |-> q.n]
      /\ before' = (IF taken.page = 0 THEN q.n ELSE before)
  BY <1>1 DEF TakePage, TakeComments
<1>3. a.next # NoCursor /\ page' = page + 1 /\ cursor' = a.next
  BY <1>1 DEF NextPage
<1>4. page \in 1 .. MaxPages + 1 /\ MaxPages \in Nat /\ posted \in 0 .. MaxPosted /\ MaxPosted \in Nat
  BY DEF IInv, CommentsTypeOK, Bounds
<1>5. page' \in 1 .. MaxPages + 1 /\ cursor' \in Cursors
  BY <1>1, <1>2, <1>3, <1>4, TakenCursor
<1>6. CommentsTypeOK' /\ OtherRequested'
  BY <1>1, <1>2, <1>5, TakenTypes
<1>7. InPlace'
  BY <1>1, <1>2, TakenInPlace
<1> DEFINE r == NextRequest(q, a)
<1>8. q = At(q.n) /\ q.n \in 0 .. posted /\ q.page = page
  BY <1>1, <1>2, AnswerableFits
<1>9. r.n = q.n /\ Fits(source, r) /\ (Exact(q) => Exact(r))
  <2>1. Fitting(source, q, a)
    BY <1>1, <1>2, TakenAnswer DEF Sound
  <2>2. QED
    BY <1>3, <2>1 DEF Fitting, NextRequest, Request
<1>11. Requested'
  <2>1. SUFFICES ASSUME NEW n \in q.n .. posted PROVE Fits(source, Request(n, page', cursor'))
    BY <1>2 DEF Requested, At
  <2>2. Request(n, page', cursor') = Request(n, r.page, r.cursor) /\ n \in r.n .. MaxPosted
    BY <1>3, <1>4, <1>8, <1>9 DEF NextRequest, Request
  <2>3. QED
    BY <1>9, <2>2, PostedSince
<1>12. Exactly'
  <2>1. SUFFICES ASSUME order' = "same"
                 PROVE  Exact(Request(before', page', cursor')) /\ q.n = before'
    BY <1>2 DEF Exactly, At
  <2>2. q.n = before' /\ Exact(q)
    <3>1. CASE taken.page = 0
      <4>1. cursor = NoCursor
        BY <1>2, <3>1 DEF IInv, FirstOne
      <4>2. QED
        BY <1>1, <1>2, <3>1, <4>1, AnswerableFits DEF Exact, NoCursor
    <3>2. CASE taken.page # 0
      <4>1. order = "same" /\ q.n = taken.n
        BY <1>1, <2>1, <3>2 DEF TakeComments
      <4>2. taken.page > 0
        BY <3>2 DEF IInv, CommentsTypeOK, Bounds
      <4>3. Exact(At(before)) /\ taken.n = before
        BY <1>2, <4>1, <4>2 DEF IInv, Exactly
      <4>4. QED
        BY <1>2, <1>8, <3>2, <4>1, <4>3
    <3>3. QED
      BY <3>1, <3>2
  <2>3. Request(before', page', cursor') = r
    BY <1>3, <1>8, <2>2 DEF NextRequest
  <2>4. QED
    BY <1>9, <2>2, <2>3
<1>13. FirstOne' /\ WalkHasAll'
  <2>1. taken'.page # 0
    BY <1>2, <1>4
  <2>2. QED
    BY <1>2, <1>3, <2>1 DEF FirstOne, WalkHasAll
<1>14. Collected'
  <2>1. SUFFICES ASSUME ~doubt', order' # "older", NEW c \in 1 .. before',
                        c <= q.n => c \in Behind(source, Request(q.n, page', cursor'))
                 PROVE  c \in got'
    BY <1>2 DEF Collected, At
  <2>2. Request(q.n, page', cursor') = r
    BY <1>3, <1>8 DEF NextRequest
  <2>3. QED
    BY <1>1, <1>2, <1>3, <2>1, <2>2, TakenWhole
<1>15. QED
  BY <1>6, <1>7, <1>11, <1>12, <1>13, <1>14 DEF IInv

LEMMA TakeLastPageStep ==
    ASSUME Bounds, IInv, TakeLastPage
    PROVE  IInv'
<1>0. PICK q \in Answerable : \E a \in CrawlerAnswers(q) : Usable(a) /\ NextPage(a) = 0 /\ TakeComments(q, a)
  BY DEF TakeLastPage
<1>1. PICK a \in CrawlerAnswers(q) : Usable(a) /\ NextPage(a) = 0 /\ TakeComments(q, a)
  BY <1>0
<1>2. /\ end = "none" /\ mode = "walk" /\ end' \in {"complete", "last"} /\ page' = page /\ cursor' = cursor
      /\ source' = source /\ mode' = mode
  BY <1>1 DEF TakeLastPage, TakeComments
<1>3. CommentsTypeOK' /\ OtherRequested'
  BY <1>1, <1>2, TakenTypes DEF IInv, CommentsTypeOK
<1>4. InPlace'
  BY <1>1, <1>2, TakenInPlace
<1>5. a.next = NoCursor
  BY <1>1 DEF NextPage, IInv, CommentsTypeOK
<1>6. WalkHasAll'
  <2>1. SUFFICES ASSUME ~doubt', order' # "older", NEW c \in 1 .. before' PROVE c \in got'
    BY <1>2 DEF WalkHasAll
  <2>2. c <= q.n => c \in 1 .. q.n
    BY <2>1
  <2>3. QED
    BY <1>1, <1>2, <1>5, <2>1, <2>2, TakenWhole
<1>7. Requested' /\ Exactly' /\ FirstOne' /\ Collected'
  BY <1>2 DEF Requested, Exactly, FirstOne, Collected
<1>8. QED
  BY <1>3, <1>4, <1>6, <1>7 DEF IInv

LEMMA InvariantStep ==
    ASSUME Bounds, IInv, [CommentsNext]_commentVars
    PROVE  IInv'
<1>1. CASE Post
  BY <1>1, PostStep
<1>2. CASE AskOther
  BY <1>2, AskOtherStep
<1>3. CASE TakeSingle
  BY <1>3, TakeSingleStep
<1>4. CASE TakePage
  BY <1>4, TakePageStep
<1>5. CASE TakeLastPage
  BY <1>5, TakeLastPageStep
<1>6. CASE Refuse \/ TooManyPages
  <2>1. /\ end' \in {"partial", "refused"}
        /\ source' = source /\ mode' = mode /\ posted' = posted /\ before' = before /\ page' = page
        /\ cursor' = cursor /\ got' = got /\ taken' = taken /\ doubt' = doubt /\ other' = other
        /\ order' = order
    BY <1>6 DEF Refuse, TooManyPages
  <2>2. CommentsTypeOK' /\ OtherRequested'
    BY <2>1 DEF IInv, CommentsTypeOK, OtherRequested
  <2>3. InPlace'
    BY <2>1 DEF IInv, InPlace
  <2>4. Requested' /\ Exactly' /\ FirstOne' /\ Collected' /\ WalkHasAll'
    BY <2>1 DEF Requested, Exactly, FirstOne, Collected, WalkHasAll
  <2>5. QED
    BY <2>2, <2>3, <2>4 DEF IInv
<1>7. CASE UNCHANGED commentVars
  <2>1. /\ end' = end
        /\ source' = source /\ mode' = mode /\ posted' = posted /\ before' = before /\ page' = page
        /\ cursor' = cursor /\ got' = got /\ taken' = taken /\ doubt' = doubt /\ other' = other
        /\ order' = order
    BY <1>7 DEF commentVars
  <2>2. CommentsTypeOK' /\ InPlace' /\ WalkHasAll' /\ OtherRequested'
    BY <2>1 DEF IInv, CommentsTypeOK, InPlace, WalkHasAll, OtherRequested
  <2>3. Requested' /\ Exactly' /\ FirstOne' /\ Collected'
    BY <2>1 DEF IInv, Requested, Exactly, FirstOne, Collected, At
  <2>4. QED
    BY <2>2, <2>3 DEF IInv
<1>8. QED
  BY <1>1, <1>2, <1>3, <1>4, <1>5, <1>6, <1>7 DEF CommentsNext, Answered

LEMMA Invariant ==
    ASSUME Bounds
    PROVE  CommentsSpec => []IInv
<1>1. CommentsInit => IInv
  BY Initially
<1>2. IInv /\ [CommentsNext]_commentVars => IInv'
  BY InvariantStep
<1>3. QED
  BY <1>1, <1>2, PTL DEF CommentsSpec

\* Every request is a page of a source, its cursor one that this source gave,
\* and what is collected is there (EngagementCrawler.fetch_comments).
THEOREM PagesTyped ==
    ASSUME Bounds
    PROVE  CommentsSpec => []CommentsTypeOK
<1>1. IInv => CommentsTypeOK
  BY DEF IInv
<1>2. QED
  BY <1>1, Invariant, PTL

\* A walk over all pages that comes to its end has all comments that were there
\* when its first page was read, also when pages come from the cache, unless a
\* numbered page came from there older than the page before it, or a collector
\* had a part in the walk that looks at nothing
\* (_fetch_all_comments_with_status, _fetch_cached, require_page, checked_list).
THEOREM WalkIsWhole ==
    ASSUME Bounds
    PROVE  CommentsSpec => []WalkHasAll
<1>1. IInv => WalkHasAll
  BY DEF IInv
<1>2. QED
  BY <1>1, Invariant, PTL

\* The comments of page p are those of page p, of every source and with every
\* cursor that led there, while the pages are of one moment
\* (EngagementCrawler.fetch_comments).
THEOREM PagesInPlace ==
    ASSUME Bounds
    PROVE  CommentsSpec => []InPlace
<1>1. IInv => InPlace
  BY DEF IInv
<1>2. QED
  BY <1>1, Invariant, PTL
=============================================================================

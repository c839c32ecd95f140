------------------------- MODULE AuthorPagesProofs -------------------------
(***************************************************************************)
(* The lists of an author, for every size of a page, number of works and   *)
(* of restarts, and set of owners.  The works are of one author because    *)
(* what a session knows has had the handle since it began (Known), and     *)
(* because a cursor of douyin carries the author of what was saved         *)
(* (OneList).  Nothing is left out because every cursor that was ever      *)
(* given has behind it only what is saved (AllBehind), the ones that a     *)
(* client may be led back to included; the lists of a platform follow one  *)
(* another (Earlier).                                                      *)
(***************************************************************************)
EXTENDS AuthorPages, FiniteSetTheorems, TLAPS

\* What the constants are.
Bounds == Size \in Nat \ {0} /\ MaxWorks \in Nat /\ MaxRestarts \in Nat /\ None \notin Owners

Places == [list : ListsOf(platform) \union {"start", "end"}, at : 0 .. MaxWorks + 1,
           author : Owners \union {None}]

\* Lists whose cursors are the number of a page; those of the others are works.
ByNumber(list) == list # "dynamic" /\ (list = "list" => platform = "sina_blog")

\* The position is a cursor that was given, and a cursor that names a work
\* names one that is there.
Passing ==
    /\ passed \subseteq {p \in Places : p.list \in ListsOf(platform)}
    /\ position \in passed \union {Start, End}
    /\ \A p \in passed : ~ByNumber(p.list) => p.at <= listed
\* An open session began when the works of the walk were there.
Opened ==
    /\ session.open => first <= session.since /\ session.since <= listed
    /\ platform = "sina_blog" => ~session.browser
\* The rows of the page before are among the pages of this list.
Rowed == lastRows # {} => position.list \in ListsOf(platform) /\ <<Source, lastRows>> \in pages

\* Who the session takes for the author has had the handle since it began.
Known == known # None => known \in held
Resolved == platform \in Handled /\ step \in {"keep", "list"} => known # None
\* A list of douyin is of the author that its cursor names.
OneList ==
    platform = "douyin" =>
        /\ \E o \in Owners : authors \subseteq {o}
        /\ position # End => authors \subseteq {position.author}

\* The works of its list that a walk at cursor p has behind it.
Behind(p) ==
    {w \in 1 .. first : p.at > 0 /\ IF ByNumber(p.list) THEN listed - w < (p.at - 1) * Size
                                                        ELSE w >= p.at}
Has(list) == \A w \in 1 .. first : <<list, w>> \in saved

AllBehind == \A p \in passed : \A w \in Behind(p) : <<p.list, w>> \in saved
\* Articles follow the videos, and dynamics the articles.
Earlier ==
    /\ position.list = "article" => Has("video")
    /\ position.list = "dynamic" => Has("video") /\ Has("article")
AtEnd ==
    position = End =>
        IF platform = "weibo" THEN \E list \in ListsOf("weibo") : Has(list)
        ELSE \A list \in ListsOf(platform) : Has(list)
Kept == ~unsure => AllBehind /\ Earlier /\ AtEnd

TypeInv == ListsTypeOK /\ Passing /\ Opened
OwnerInv == ~stale /\ Known /\ Resolved /\ OneList
ListInv == Rowed /\ Kept
IInv == TypeInv /\ OwnerInv /\ ListInv

-----------------------------------------------------------------------------
(* Pages and lists *)

LEMMA Multiples ==
    ASSUME NEW p \in Nat \ {0}, NEW s \in Nat \ {0}
    PROVE  /\ p * s = (p - 1) * s + s /\ ((p + 1) - 1) * s = (p - 1) * s + s
           /\ p <= p * s /\ p - 1 <= (p - 1) * s /\ (p - 1) * s \in Nat
  OBVIOUS

\* A page has the works from its place on, and the next one begins after its
\* last work.
LEMMA Windows ==
    ASSUME Bounds, NEW n \in Nat, NEW i \in Nat
    PROVE  /\ Window(n, i) \subseteq 1 .. n
           /\ i < n => Window(n, i) # {}
           /\ Window(n, i) # {} => i < n
           /\ \A w \in 1 .. n : n - w < i + Size => n - w < i \/ w \in Window(n, i)
           /\ Follows(n, i) =>
                LastOf(n, i) \in 1 .. n /\ \A w \in 1 .. n : w >= LastOf(n, i) => n - w < i + Size
           /\ ~Follows(n, i) => \A w \in 1 .. n : n - w < i + Size
<1>1. Window(n, i) \subseteq 1 .. n
  BY DEF Window
<1>2. ASSUME i < n PROVE Window(n, i) # {}
  <2>1. n - i \in 1 .. n /\ n - (n - i) \in i .. i + Size - 1
    BY <1>2 DEF Bounds
  <2>2. QED
    BY <2>1 DEF Window
<1>3. ASSUME Window(n, i) # {} PROVE i < n
  <2>1. PICK c \in 1 .. n : n - c \in i .. i + Size - 1
    BY <1>3 DEF Window
  <2>2. QED
    BY <2>1
<1>4. ASSUME NEW w \in 1 .. n, n - w < i + Size PROVE n - w < i \/ w \in Window(n, i)
  BY <1>4 DEF Window, Bounds
<1>5. ASSUME Follows(n, i)
      PROVE  LastOf(n, i) \in 1 .. n /\ \A w \in 1 .. n : w >= LastOf(n, i) => n - w < i + Size
  BY <1>5 DEF Follows, LastOf, Bounds
<1>6. ASSUME ~Follows(n, i) PROVE \A w \in 1 .. n : n - w < i + Size
  BY <1>6 DEF Follows, Bounds
<1>7. QED
  BY <1>1, <1>2, <1>3, <1>4, <1>5, <1>6

LEMMA Lists ==
    ASSUME platform \in ADAPTERS
    PROVE  /\ "end" \notin ListsOf(platform) /\ "start" \notin ListsOf(platform)
           /\ platform = "bilibili" => ListsOf(platform) = {"video", "article", "dynamic"}
           /\ platform = "weibo" => ListsOf(platform) = {"desktop", "mobile"}
           /\ platform \notin {"bilibili", "weibo"} => ListsOf(platform) = {"list"}
  BY DEF ADAPTERS, ListsOf

\* Which list is read, and what the position is in it.
LEMMA ReadingList ==
    ASSUME Bounds, TypeInv, position # End
    PROVE  /\ Reading \in ListsOf(platform)
           /\ position = Start \/ (position \in passed /\ Reading = position.list)
           /\ position = Start => position.at = 0 /\ Reading \notin {"article", "dynamic"}
           /\ position \in Places /\ position.at \in Nat
           /\ ~ByNumber(Reading) => position.at <= listed
<1> USE DEF TypeInv, ListsTypeOK, Passing, Start, End, CursorAt
<1>1. CASE position = Start
  BY <1>1, Lists DEF Reading, ADAPTERS, ListsOf, Places
<1>2. CASE position \in passed
  <2>1. position \in Places /\ position.list \in ListsOf(platform)
    BY <1>2
  <2>2. position.list # "start"
    BY <2>1, Lists
  <2>3. Reading = position.list
    BY <2>2, Zenon DEF Reading
  <2>4. QED
    BY <1>2, <2>1, <2>2, <2>3 DEF Places
<1>3. QED
  BY <1>1, <1>2

\* When an answer may have been made.
LEMMA Moment ==
    ASSUME Bounds, TypeInv, Going("list"), NEW n \in Moments
    PROVE  /\ position # End /\ n \in Nat /\ first <= n /\ n <= listed
           /\ ByNumber(Reading) => n = listed
           /\ ~ByNumber(Reading) => position.at <= n
<1> USE DEF TypeInv, ListsTypeOK
<1>1. position # End
  BY DEF Going
<1>2. CASE Captures
  <2>1. n \in session.since .. listed /\ n >= position.at
    BY <1>2 DEF Moments
  <2>2. ~ByNumber(Reading)
    BY <1>2, <1>1, ReadingList, Lists DEF Captures, ByNumber, Opened
  <2>3. QED
    BY <1>1, <2>1, <2>2, ReadingList DEF Going, Opened, Bounds
<1>3. CASE ~Captures
  BY <1>1, <1>3, ReadingList DEF Moments
<1>4. QED
  BY <1>2, <1>3
-----------------------------------------------------------------------------
(* Lists whose pages follow a work *)

\* What such a list answers.
LEMMA FollowingShape ==
    ASSUME Bounds, TypeInv, position # End, ~ByNumber(Reading),
           NEW n \in first .. listed, position.at <= n, NEW a \in Following(n)
    PROVE  /\ a = [items |-> a.items, next |-> a.next, sure |-> a.sure]
           /\ a.items \subseteq 1 .. listed /\ a.sure \in BOOLEAN
           /\ a.sure => a.items = Window(n, PlaceNow(n)) \/ Noticed(a.items, a.next)
           /\ \/ a.next = End /\ ~Follows(n, PlaceNow(n))
              \/ /\ Follows(n, PlaceNow(n))
                 /\ a.next = CursorAt(Reading, a.next.at) /\ a.next.at \in 0 .. listed
                 /\ \/ a.next.at = LastOf(n, PlaceNow(n))
                    \/ \E p \in passed : p.list = Reading /\ p.at = a.next.at
<1> DEFINE i == PlaceNow(n)
           named == {LastOf(n, i)} \union {p.at : p \in {q \in passed : q.list = Reading}}
           nexts == IF Follows(n, i) THEN {CursorAt(Reading, at) : at \in named \ {position.at}} ELSE {End}
<1>1. PICK pair \in RowsOf(n, i) \X nexts : a = Listing(n, i, pair[1], pair[2])
  BY DEF Following
<1>2. a.items = pair[1] /\ a.next = pair[2] /\ a.sure = (pair[1] = Window(n, i) \/ Noticed(pair[1], pair[2]))
  BY <1>1 DEF Listing
<1>3. pair[1] \in RowsOf(n, i) /\ pair[2] \in nexts
  OBVIOUS
<1>4. i \in Nat /\ n \in Nat /\ listed \in Nat
  BY ReadingList DEF PlaceNow, PlaceAfter, TypeInv, ListsTypeOK, Bounds
<1>5. a.items \subseteq 1 .. listed
  <2>1. Window(n, i) \subseteq 1 .. n
    BY <1>4, Windows
  <2>2. Window(n, i) \subseteq 1 .. listed
    BY <1>4, <2>1
  <2>3. lastRows \subseteq 1 .. listed
    BY DEF TypeInv, ListsTypeOK
  <2>4. QED
    BY <1>2, <1>3, <2>2, <2>3 DEF RowsOf
<1>6. CASE ~Follows(n, i)
  BY <1>1, <1>2, <1>3, <1>5, <1>6 DEF Listing
<1>7. CASE Follows(n, i)
  <2>1. PICK at \in named : a.next = CursorAt(Reading, at)
    BY <1>2, <1>3, <1>7
  <2>2. a.next.at = at
    BY <2>1 DEF CursorAt
  <2>3. LastOf(n, i) \in 0 .. listed
    BY <1>4, <1>7, Windows
  <2>4. ASSUME NEW p \in passed, p.list = Reading PROVE p.at \in 0 .. listed
    BY <2>4 DEF TypeInv, Passing, Places, Bounds
  <2>5. at \in 0 .. listed /\ (at = LastOf(n, i) \/ \E p \in passed : p.list = Reading /\ p.at = at)
    BY <2>3, <2>4
  <2>6. QED
    BY <1>1, <1>2, <1>5, <1>7, <2>1, <2>2, <2>5 DEF Listing
<1>8. QED
  BY <1>6, <1>7

\* A position that was passed has only what is saved behind it.
LEMMA PositionBehind ==
    ASSUME Bounds, TypeInv, AllBehind, position # End,
           NEW w \in 1 .. first, position.at > 0
    PROVE  /\ ByNumber(Reading) /\ listed - w < NumberPlace => <<Reading, w>> \in saved
           /\ ~ByNumber(Reading) /\ w >= position.at => <<Reading, w>> \in saved
<1>1. position \in passed /\ Reading = position.list
  BY ReadingList
<1>2. position.at \in Nat
  BY ReadingList
<1>3. page_number = position.at
  BY <1>2 DEF page_number
<1>4. w \in Behind(position) => <<Reading, w>> \in saved
  BY <1>1 DEF AllBehind
<1>5. QED
  BY <1>1, <1>3, <1>4 DEF Behind, NumberPlace

\* What is saved and what is on the page leave nothing out up to its last work.
LEMMA FollowingWhole ==
    ASSUME Bounds, TypeInv, AllBehind, position # End, ~ByNumber(Reading),
           NEW n \in first .. listed, position.at <= n, NEW w \in 1 .. first
    PROVE  /\ Follows(n, PlaceNow(n)) /\ w >= LastOf(n, PlaceNow(n)) =>
                <<Reading, w>> \in saved \/ w \in Window(n, PlaceNow(n))
           /\ ~Follows(n, PlaceNow(n)) =>
                <<Reading, w>> \in saved \/ w \in Window(n, PlaceNow(n))
<1> DEFINE i == PlaceNow(n)
<1>1. i \in Nat /\ n \in Nat /\ w \in 1 .. n
  BY ReadingList DEF PlaceNow, PlaceAfter, TypeInv, ListsTypeOK, Bounds
<1>2. ASSUME n - w < i PROVE <<Reading, w>> \in saved
  <2>1. position.at # 0 /\ i = n - position.at + 1
    BY <1>1, <1>2 DEF PlaceNow, PlaceAfter
  <2>2. w >= position.at /\ position.at > 0
    BY <1>1, <1>2, <2>1, ReadingList
  <2>3. QED
    BY <2>2, PositionBehind
<1>3. QED
  BY <1>1, <1>2, Windows

-----------------------------------------------------------------------------
(* What an answer brings the walk *)

\* Where an answer may lead.
Leads(a) ==
    /\ a.items \subseteq 1 .. listed /\ a.sure \in BOOLEAN
    /\ \/ a.next = End /\ (platform = "bilibili" => Reading = "dynamic")
       \/ /\ a.next \in Places /\ a.next.list = Reading
          /\ ~ByNumber(Reading) => a.next.at <= listed
       \/ /\ platform = "bilibili" /\ Reading \in {"video", "article"}
          /\ a.next = Next_source(Reading)
    /\ platform = "douyin" /\ a.next # End => a.next.author = known

\* The job takes it only when it is not a repetition.
Taken(a) == caller = "job" => ~Repeated(a)

Now(a, w) == <<Reading, w>> \in saved \/ w \in a.items

\* Nothing is left out up to the next page, or in the whole of the list.
Whole(a) ==
    IF a.next.list = Reading THEN \A w \in Behind(a.next) : Now(a, w)
    ELSE \A w \in 1 .. first : Now(a, w)

\* A page that the job notices has been there before: it is not taken.
LEMMA NotNoticed ==
    ASSUME Rowed, NEW a, Taken(a), NEW rows, rows = a.items, NEW next, next # End, a.next # End,
           Noticed(rows, next)
    PROVE  FALSE
  BY DEF Noticed, Taken, Repeated, Rowed

\* An answer of a list whose pages follow a work, its cursor with an author or
\* without one.
LEMMA FollowingLeads ==
    ASSUME Bounds, TypeInv, position # End, ~ByNumber(Reading),
           platform = "bilibili" => Reading = "dynamic",
           NEW n \in first .. listed, position.at <= n, NEW a \in Following(n),
           platform # "douyin"
    PROVE  Leads(a)
<1>1. a.items \subseteq 1 .. listed /\ a.sure \in BOOLEAN
  BY FollowingShape
<1>2. CASE a.next = End
  BY <1>1, <1>2 DEF Leads
<1>3. CASE a.next = CursorAt(Reading, a.next.at) /\ a.next.at \in 0 .. listed
  <2>1. a.next = [list |-> Reading, at |-> a.next.at, author |-> None]
    BY <1>3 DEF CursorAt
  <2>2. Reading \in ListsOf(platform) /\ a.next.at \in 0 .. MaxWorks + 1 /\ a.next.at <= listed
    BY <1>3, ReadingList DEF TypeInv, ListsTypeOK, Bounds
  <2>3. a.next \in Places /\ a.next.list = Reading
    BY <2>1, <2>2 DEF Places
  <2>4. QED
    BY <1>1, <2>2, <2>3 DEF Leads
<1>4. QED
  BY <1>2, <1>3, FollowingShape

LEMMA FollowingTaken ==
    ASSUME Bounds, TypeInv, Rowed, AllBehind, position # End, ~ByNumber(Reading),
           NEW n \in first .. listed, position.at <= n, NEW b \in Following(n),
           NEW a, a.items = b.items, a.sure = b.sure, a.next.list = b.next.list,
           a.next.at = b.next.at, a.next = End <=> b.next = End,
           a.sure, Taken(a)
    PROVE  Whole(a)
<1>1. a.items = Window(n, PlaceNow(n))
  <2>1. CASE Noticed(b.items, b.next)
    <3>1. b.next # End
      BY <2>1 DEF Noticed
    <3>2. QED
      BY <2>1, <3>1, NotNoticed
  <2>2. QED
    BY <2>1, FollowingShape
<1>2. CASE b.next = End /\ ~Follows(n, PlaceNow(n))
  <2>1. a.next.list # Reading
    BY <1>2, ReadingList, Lists DEF End, CursorAt, TypeInv, ListsTypeOK
  <2>2. QED
    BY <1>1, <1>2, <2>1, FollowingWhole DEF Whole, Now
<1>3. CASE Follows(n, PlaceNow(n)) /\ b.next.list = Reading /\ b.next.at = LastOf(n, PlaceNow(n))
  <2>1. ASSUME NEW w \in Behind(a.next) PROVE w \in 1 .. first /\ w >= LastOf(n, PlaceNow(n))
    BY <1>3 DEF Behind
  <2>2. QED
    BY <1>1, <1>3, <2>1, FollowingWhole DEF Whole, Now
<1>4. CASE b.next.list = Reading /\ \E p \in passed : p.list = Reading /\ p.at = b.next.at
  <2>1. PICK p \in passed : p.list = Reading /\ p.at = b.next.at
    BY <1>4
  <2>2. Behind(a.next) = Behind(p)
    BY <1>4, <2>1 DEF Behind
  <2>3. QED
    BY <1>4, <2>1, <2>2 DEF Whole, Now, AllBehind
<1>5. \/ b.next = End /\ ~Follows(n, PlaceNow(n))
      \/ /\ Follows(n, PlaceNow(n)) /\ b.next = CursorAt(Reading, b.next.at)
         /\ \/ b.next.at = LastOf(n, PlaceNow(n))
            \/ \E p \in passed : p.list = Reading /\ p.at = b.next.at
  <2> HIDE DEF Bounds
  <2>1. QED
    BY FollowingShape
<1>6. b.next = CursorAt(Reading, b.next.at) => b.next.list = Reading
  <2>1. \A at : CursorAt(Reading, at).list = Reading
    BY DEF CursorAt
  <2>2. QED
    BY <2>1
<1>7. QED
  BY <1>2, <1>3, <1>4, <1>5, <1>6

-----------------------------------------------------------------------------
(* Lists with numbered pages *)

\* What is saved and what is on the page leave nothing out up to its last work.
LEMMA NumberedWhole ==
    ASSUME Bounds, TypeInv, AllBehind, position # End, ByNumber(Reading),
           NEW w \in 1 .. first, listed - w < page_number * Size
    PROVE  <<Reading, w>> \in saved \/ w \in Window(listed, NumberPlace)
<1>1. page_number \in Nat \ {0} /\ NumberPlace \in Nat /\ page_number * Size = NumberPlace + Size
  <2>1. page_number \in Nat \ {0}
    BY ReadingList DEF page_number
  <2>2. QED
    BY <2>1, Multiples DEF Bounds, NumberPlace
<1>2. listed \in Nat /\ w \in 1 .. listed
  BY DEF TypeInv, ListsTypeOK, Bounds
<1>3. listed - w < NumberPlace => position.at > 0
  BY <1>2, ReadingList DEF NumberPlace, page_number, Bounds
<1>4. QED
  BY <1>1, <1>2, <1>3, PositionBehind, Windows

\* The next page of the list begins there.
LEMMA NextNumber ==
    ASSUME Bounds, TypeInv, position # End, ByNumber(Reading),
           NEW w, w \in Behind(CursorAt(Reading, page_number + 1))
    PROVE  w \in 1 .. first /\ listed - w < page_number * Size
<1>1. page_number \in Nat \ {0}
  BY ReadingList DEF page_number
<1>2. ((page_number + 1) - 1) * Size = page_number * Size
  BY <1>1, Multiples DEF Bounds
<1>3. QED
  BY <1>2 DEF Behind, CursorAt

\* It is there when the page was not the end of the list, or had works.
LEMMA NextPlace ==
    ASSUME Bounds, TypeInv, position # End, page_number <= listed
    PROVE  CursorAt(Reading, page_number + 1) \in Places
<1>1. page_number + 1 \in 0 .. MaxWorks + 1
  BY ReadingList DEF page_number, TypeInv, ListsTypeOK, Bounds
<1>2. QED
  BY <1>1, ReadingList DEF CursorAt, Places

LEMMA NumberBound ==
    ASSUME Bounds, TypeInv, position # End
    PROVE  /\ NumberPlace \in Nat /\ page_number \in Nat \ {0}
           /\ page_number * Size < listed => page_number <= listed
           /\ NumberPlace < listed => page_number <= listed
           /\ Follows(listed, NumberPlace) <=> page_number * Size < listed
<1>1. page_number \in Nat \ {0} /\ listed \in Nat /\ Size \in Nat \ {0}
  BY ReadingList DEF page_number, TypeInv, ListsTypeOK, Bounds
<1>2. /\ page_number * Size = NumberPlace + Size /\ page_number <= page_number * Size
      /\ page_number - 1 <= NumberPlace /\ NumberPlace \in Nat
  BY <1>1, Multiples DEF NumberPlace
<1>3. QED
  BY <1>1, <1>2 DEF Follows

LEMMA weiboAnswer ==
    ASSUME Bounds, TypeInv, position # End, platform = "weibo", NEW a \in weibo_works(listed)
    PROVE  Leads(a) /\ (AllBehind /\ a.sure => Whole(a))
<1>1. ByNumber(Reading) /\ Reading # "end" /\ Reading \in ListsOf(platform)
  BY ReadingList, Lists DEF ByNumber, TypeInv, ListsTypeOK
<1>2. listed \in Nat /\ NumberPlace \in Nat
  BY NumberBound DEF TypeInv, ListsTypeOK, Bounds
<1>3. PICK rows \in RowsOf(listed, NumberPlace) :
        /\ IF rows = {} THEN page_number = 1 => listed = 0 ELSE rows # lastRows
        /\ a = [items |-> rows,
                next |-> IF rows = {} THEN End ELSE CursorAt(Reading, page_number + 1),
                sure |-> rows = Window(listed, NumberPlace)]
  BY DEF weibo_works
<1>4. a.items = rows /\ a.sure = (rows = Window(listed, NumberPlace))
      /\ a.next = IF rows = {} THEN End ELSE CursorAt(Reading, page_number + 1)
  BY <1>3
<1>5. CASE rows = {}
  <2>1. Leads(a)
    BY <1>4, <1>5 DEF Leads
  <2>2. ASSUME AllBehind, a.sure, NEW w \in 1 .. first PROVE Now(a, w)
    <3>1. listed <= NumberPlace
      <4>1. Window(listed, NumberPlace) = {}
        BY <1>4, <1>5, <2>2
      <4>2. QED
        BY <1>2, <4>1, Windows
    <3>2. page_number \in Nat \ {0} /\ Size \in Nat \ {0} /\ w \in Nat \ {0}
      BY NumberBound DEF Bounds, TypeInv, ListsTypeOK
    <3>3. page_number * Size = NumberPlace + Size /\ page_number * Size \in Nat
      BY <3>2, Multiples DEF NumberPlace
    <3>4. listed - w < page_number * Size
      BY <1>2, <3>1, <3>2, <3>3
    <3>5. QED
      BY <1>1, <1>4, <2>2, <3>4, NumberedWhole DEF Now
  <2>3. a.next.list # Reading
    BY <1>1, <1>4, <1>5 DEF End, CursorAt
  <2>4. QED
    BY <2>1, <2>2, <2>3 DEF Whole
<1>6. CASE rows # {}
  <2>1. rows = Window(listed, NumberPlace)
    BY <1>3, <1>6 DEF RowsOf
  <2>2. page_number <= listed
    BY <1>2, <1>6, <2>1, Windows, NumberBound
  <2>3. a.next = CursorAt(Reading, page_number + 1) /\ a.next \in Places /\ a.next.list = Reading
    BY <1>4, <1>6, <2>2, NextPlace DEF CursorAt
  <2>4. a.items \subseteq 1 .. listed
    BY <1>2, <1>4, <2>1, Windows
  <2>5. Leads(a)
    BY <1>1, <1>4, <2>3, <2>4 DEF Leads
  <2>6. ASSUME AllBehind, NEW w \in Behind(a.next) PROVE Now(a, w)
    <3>1. w \in 1 .. first /\ listed - w < page_number * Size
      BY <1>1, <2>3, <2>6, NextNumber
    <3>2. QED
      BY <1>1, <1>4, <2>1, <2>6, <3>1, NumberedWhole DEF Now
  <2>7. QED
    BY <2>3, <2>5, <2>6 DEF Whole
<1>7. QED
  BY <1>5, <1>6

\* Videos and articles.
LEMMA CountedAnswer ==
    ASSUME Bounds, TypeInv, position # End, platform = "bilibili", Reading # "dynamic",
           NEW a \in CountedList(listed)
    PROVE  Leads(a) /\ (Rowed /\ AllBehind /\ a.sure /\ Taken(a) => Whole(a))
<1>1. ByNumber(Reading) /\ Reading \in {"video", "article"} /\ Reading \in ListsOf(platform)
  BY ReadingList, Lists DEF ByNumber, TypeInv, ListsTypeOK
<1>2. listed \in Nat /\ NumberPlace \in Nat
  BY NumberBound DEF TypeInv, ListsTypeOK, Bounds
<1> DEFINE next == IF page_number * Size < listed THEN CursorAt(Reading, page_number + 1)
                   ELSE Next_source(Reading)
<1>3. PICK rows \in RowsOf(listed, NumberPlace) : a = Listing(listed, NumberPlace, rows, next)
  BY DEF CountedList
<1>4. /\ a.items = rows /\ a.next = next
      /\ a.sure = (rows = Window(listed, NumberPlace) \/ Noticed(rows, next))
  BY <1>3 DEF Listing
<1>5. a.items \subseteq 1 .. listed /\ a.sure \in BOOLEAN
  <2>1. Window(listed, NumberPlace) \subseteq 1 .. listed /\ lastRows \subseteq 1 .. listed
    BY <1>2, Windows DEF TypeInv, ListsTypeOK
  <2>2. QED
    BY <1>4, <2>1 DEF RowsOf
<1>6. next # End /\ Next_source(Reading).list # Reading
  BY <1>1 DEF End, CursorAt, Next_source
<1>7. Rowed /\ a.sure /\ Taken(a) => a.items = Window(listed, NumberPlace)
  BY <1>4, <1>6, NotNoticed
<1>8. CASE page_number * Size < listed
  <2>1. a.next = CursorAt(Reading, page_number + 1) /\ a.next \in Places /\ a.next.list = Reading
    BY <1>4, <1>8, NumberBound, NextPlace DEF CursorAt
  <2>2. Leads(a)
    BY <1>1, <1>5, <2>1 DEF Leads
  <2>3. ASSUME Rowed, AllBehind, a.sure, Taken(a), NEW w \in Behind(a.next) PROVE Now(a, w)
    <3>1. w \in 1 .. first /\ listed - w < page_number * Size
      BY <1>1, <2>1, <2>3, NextNumber
    <3>2. QED
      BY <1>1, <1>7, <2>3, <3>1, NumberedWhole DEF Now
  <2>4. QED
    BY <2>1, <2>2, <2>3 DEF Whole
<1>9. CASE ~(page_number * Size < listed)
  <2>1. a.next = Next_source(Reading)
    BY <1>4, <1>9
  <2>2. Leads(a)
    BY <1>1, <1>5, <2>1 DEF Leads
  <2>3. ASSUME Rowed, AllBehind, a.sure, Taken(a), NEW w \in 1 .. first PROVE Now(a, w)
    <3>1. listed - w < page_number * Size
      BY <1>2, <1>9, NumberBound, Multiples DEF Bounds, TypeInv, ListsTypeOK, NumberPlace
    <3>2. QED
      BY <1>1, <1>7, <2>3, <3>1, NumberedWhole DEF Now
  <2>4. QED
    BY <1>6, <2>1, <2>2, <2>3 DEF Whole
<1>10. QED
  BY <1>8, <1>9

LEMMA sina_blogAnswer ==
    ASSUME Bounds, TypeInv, position # End, platform = "sina_blog", NEW a \in sina_blog_works(listed)
    PROVE  Leads(a) /\ (Rowed /\ AllBehind /\ a.sure /\ Taken(a) => Whole(a))
<1>1. ByNumber(Reading) /\ Reading = "list" /\ Reading \in ListsOf(platform)
  BY ReadingList, Lists DEF ByNumber, TypeInv, ListsTypeOK
<1>2. listed \in Nat /\ NumberPlace \in Nat
  BY NumberBound DEF TypeInv, ListsTypeOK, Bounds
<1> DEFINE more == Follows(listed, NumberPlace)
           nexts == IF more THEN {CursorAt("list", page_number + 1), End} ELSE {End}
<1>3. PICK pair \in (RowsOf(listed, NumberPlace) \ {{}}) \X nexts :
        a = [Listing(listed, NumberPlace, pair[1], pair[2])
               EXCEPT !.sure = @ /\ (more => pair[2] # End)]
  BY DEF sina_blog_works
<1>4. /\ a.items = pair[1] /\ a.next = pair[2] /\ a.sure \in BOOLEAN
      /\ a.sure => pair[1] = Window(listed, NumberPlace) \/ Noticed(pair[1], pair[2])
      /\ a.sure /\ more => pair[2] # End
  <2> DEFINE b == Listing(listed, NumberPlace, pair[1], pair[2])
  <2>1. /\ b.items = pair[1] /\ b.next = pair[2] /\ b.sure \in BOOLEAN
        /\ b.sure => pair[1] = Window(listed, NumberPlace) \/ Noticed(pair[1], pair[2])
        /\ b = [items |-> b.items, next |-> b.next, sure |-> b.sure]
    BY DEF Listing
  <2>2. a = [b EXCEPT !.sure = b.sure /\ (more => pair[2] # End)]
    BY <1>3
  <2> HIDE DEF b
  <2>3. a.items = b.items /\ a.next = b.next /\ a.sure = (b.sure /\ (more => pair[2] # End))
    BY <2>1, <2>2
  <2>4. QED
    BY <2>1, <2>3
<1>5. pair[1] \in RowsOf(listed, NumberPlace) /\ pair[2] \in nexts
  OBVIOUS
<1>6. a.items \subseteq 1 .. listed
  <2>1. Window(listed, NumberPlace) \subseteq 1 .. listed /\ lastRows \subseteq 1 .. listed
    BY <1>2, Windows DEF TypeInv, ListsTypeOK
  <2>2. QED
    BY <1>4, <1>5, <2>1 DEF RowsOf
<1>7. Rowed /\ a.sure /\ Taken(a) => a.items = Window(listed, NumberPlace)
  <2>1. pair[2] # End => a.next # End
    BY <1>4
  <2>2. Noticed(pair[1], pair[2]) => pair[2] # End
    BY DEF Noticed
  <2>3. QED
    BY <1>4, <2>1, <2>2, NotNoticed
<1>8. CASE more /\ a.next = CursorAt("list", page_number + 1)
  <2>1. a.next = CursorAt(Reading, page_number + 1) /\ a.next \in Places /\ a.next.list = Reading
    BY <1>1, <1>8, NumberBound, NextPlace DEF CursorAt
  <2>2. Leads(a)
    BY <1>1, <1>4, <1>6, <2>1 DEF Leads
  <2>3. ASSUME Rowed, AllBehind, a.sure, Taken(a), NEW w \in Behind(a.next) PROVE Now(a, w)
    <3>1. w \in 1 .. first /\ listed - w < page_number * Size
      BY <1>1, <2>1, <2>3, NextNumber
    <3>2. QED
      BY <1>1, <1>7, <2>3, <3>1, NumberedWhole DEF Now
  <2>4. QED
    BY <2>1, <2>2, <2>3 DEF Whole
<1>9. CASE a.next = End
  <2>1. Leads(a)
    BY <1>4, <1>6, <1>9 DEF Leads
  <2>2. ASSUME Rowed, AllBehind, a.sure, Taken(a), NEW w \in 1 .. first PROVE Now(a, w)
    <3>1. ~more
      BY <1>4, <1>9, <2>2
    <3>2. listed - w < page_number * Size
      BY <1>2, <3>1, NumberBound, Multiples DEF Bounds, TypeInv, ListsTypeOK, NumberPlace
    <3>3. QED
      BY <1>1, <1>7, <2>2, <3>2, NumberedWhole DEF Now
  <2>3. a.next.list # Reading
    BY <1>1, <1>9 DEF End, CursorAt
  <2>4. QED
    BY <2>1, <2>2, <2>3 DEF Whole
<1>10. QED
  BY <1>4, <1>5, <1>8, <1>9

\* An answer of a list whose pages follow a work, as it is.
LEMMA FollowingAnswer ==
    ASSUME Bounds, TypeInv, position # End, ~ByNumber(Reading), platform # "douyin",
           platform = "bilibili" => Reading = "dynamic",
           NEW n \in first .. listed, position.at <= n, NEW a \in Following(n)
    PROVE  Leads(a) /\ (Rowed /\ AllBehind /\ a.sure /\ Taken(a) => Whole(a))
  BY FollowingLeads, FollowingTaken

\* Its cursor may be missing.
LEMMA kuaishouAnswer ==
    ASSUME Bounds, TypeInv, position # End, ~ByNumber(Reading), platform = "kuaishou",
           NEW n \in first .. listed, position.at <= n, NEW a \in kuaishou_works(n)
    PROVE  Leads(a) /\ (Rowed /\ AllBehind /\ a.sure /\ Taken(a) => Whole(a))
<1>1. CASE a \in Following(n)
  BY <1>1, FollowingAnswer
<1>2. CASE a \in {[b EXCEPT !.next = End, !.sure = FALSE] : b \in Following(n)}
  <2>1. PICK b \in Following(n) : a = [b EXCEPT !.next = End, !.sure = FALSE]
    BY <1>2
  <2>2. b = [items |-> b.items, next |-> b.next, sure |-> b.sure] /\ b.items \subseteq 1 .. listed
    BY FollowingShape
  <2>3. a.items = b.items /\ a.next = End /\ a.sure = FALSE
    BY <2>1, <2>2
  <2>4. QED
    BY <2>2, <2>3 DEF Leads
<1>3. QED
  BY <1>1, <1>2 DEF kuaishou_works

\* Its cursor names the author.
LEMMA douyinAnswer ==
    ASSUME Bounds, TypeInv, position # End, ~ByNumber(Reading), platform = "douyin",
           NEW n \in first .. listed, position.at <= n, NEW a \in douyin_works(n)
    PROVE  Leads(a) /\ (Rowed /\ AllBehind /\ a.sure /\ Taken(a) => Whole(a))
<1>1. PICK b \in Following(n) :
        a = IF b.next = End THEN b ELSE [b EXCEPT !.next.author = known]
  BY DEF douyin_works
<1>2. /\ b = [items |-> b.items, next |-> b.next, sure |-> b.sure]
      /\ b.items \subseteq 1 .. listed /\ b.sure \in BOOLEAN
      /\ \/ b.next = End
         \/ b.next = CursorAt(Reading, b.next.at) /\ b.next.at \in 0 .. listed
  BY FollowingShape
<1>3. CASE b.next = End
  <2>1. a = b
    BY <1>1, <1>3
  <2>2. Leads(a)
    BY <1>2, <1>3, <2>1 DEF Leads
  <2>3. QED
    BY <2>1, <2>2, FollowingTaken
<1>4. CASE b.next # End
  <2> DEFINE m == [b.next EXCEPT !.author = known]
  <2>1. a = [b EXCEPT !.next = m]
    BY <1>1, <1>4
  <2>2. b.next = [list |-> Reading, at |-> b.next.at, author |-> None]
    BY <1>2, <1>4 DEF CursorAt
  <2>3. m.list = Reading /\ m.at = b.next.at /\ m.author = known
        /\ m = [list |-> Reading, at |-> b.next.at, author |-> known]
    BY <2>2
  <2>4. b.next.list = Reading
    BY <2>2
  <2> HIDE DEF m
  <2>5. a.items = b.items /\ a.next = m /\ a.sure = b.sure
    BY <1>2, <2>1
  <2>6. Reading \in ListsOf(platform) /\ Reading # "end"
    BY ReadingList, Lists DEF TypeInv, ListsTypeOK
  <2>7. m # End
    BY <2>3, <2>6 DEF End, CursorAt
  <2>8. m.at \in 0 .. MaxWorks + 1 /\ m.at <= listed
    BY <1>2, <1>4, <2>3 DEF TypeInv, ListsTypeOK, Bounds
  <2>9. m \in Places
    BY <2>3, <2>6, <2>8 DEF Places, TypeInv, ListsTypeOK
  <2>10. Leads(a)
    BY <1>2, <2>3, <2>5, <2>8, <2>9 DEF Leads
  <2>11. a.next.list = b.next.list /\ a.next.at = b.next.at /\ (a.next = End <=> b.next = End)
    BY <1>4, <2>3, <2>4, <2>5, <2>7
  <2>12. QED
    BY <2>5, <2>10, <2>11, FollowingTaken
<1>5. QED
  BY <1>3, <1>4

\* Every answer leads on, or to the end, and one that is sure leaves nothing out.
LEMMA AnyAnswer ==
    ASSUME Bounds, TypeInv, Going("list"), NEW n \in Moments, NEW a \in PageAnswers(n)
    PROVE  Leads(a) /\ (Rowed /\ AllBehind /\ a.sure /\ Taken(a) => Whole(a))
<1>1. /\ position # End /\ n \in first .. listed
      /\ ByNumber(Reading) => n = listed
      /\ ~ByNumber(Reading) => position.at <= n
  BY Moment DEF TypeInv, ListsTypeOK, Bounds
<1>2. platform \in ADAPTERS /\ Reading \in ListsOf(platform)
  BY <1>1, ReadingList DEF TypeInv, ListsTypeOK
<1>3. CASE platform = "douyin"
  <2>1. a \in douyin_works(n)
    BY <1>3 DEF PageAnswers
  <2>2. ~ByNumber(Reading)
    BY <1>2, <1>3, Lists DEF ByNumber
  <2>3. QED
    BY <1>1, <1>3, <2>1, <2>2, douyinAnswer
<1>4. CASE platform = "kuaishou"
  <2>1. a \in kuaishou_works(n)
    BY <1>4 DEF PageAnswers
  <2>2. ~ByNumber(Reading)
    BY <1>2, <1>4, Lists DEF ByNumber
  <2>3. QED
    BY <1>1, <1>4, <2>1, <2>2, kuaishouAnswer
<1>5. CASE platform \in {"xiaohongshu", "toutiao"}
  <2>1. a \in Following(n)
    BY <1>5 DEF PageAnswers, xiaohongshu_works, toutiao_works
  <2>2. ~ByNumber(Reading)
    BY <1>2, <1>5, Lists DEF ByNumber
  <2>3. QED
    BY <1>1, <1>5, <2>1, <2>2, FollowingAnswer
<1>6. CASE platform = "weibo"
  <2>1. a \in weibo_works(n)
    BY <1>6 DEF PageAnswers
  <2>2. n = listed
    BY <1>1, <1>2, <1>6, Lists DEF ByNumber
  <2>3. QED
    BY <1>1, <1>6, <2>1, <2>2, weiboAnswer
<1>7. CASE platform = "bilibili"
  <2>1. a \in bilibili_works(n)
    BY <1>7 DEF PageAnswers
  <2>2. CASE Reading = "dynamic"
    <3>1. a \in Following(n) /\ ~ByNumber(Reading)
      BY <2>1, <2>2 DEF bilibili_works, ByNumber
    <3>2. QED
      BY <1>1, <1>7, <2>2, <3>1, FollowingAnswer
  <2>3. CASE Reading # "dynamic"
    <3>1. n = listed /\ a \in CountedList(n)
      BY <1>1, <1>2, <1>7, <2>1, <2>3, Lists DEF bilibili_works, ByNumber
    <3>2. QED
      BY <1>1, <1>7, <2>3, <3>1, CountedAnswer
  <2>4. QED
    BY <2>2, <2>3
<1>8. CASE platform = "sina_blog"
  <2>1. a \in sina_blog_works(n)
    BY <1>8 DEF PageAnswers
  <2>2. n = listed
    BY <1>1, <1>2, <1>8, Lists DEF ByNumber
  <2>3. QED
    BY <1>1, <1>8, <2>1, <2>2, sina_blogAnswer
<1>9. QED
  BY <1>2, <1>3, <1>4, <1>5, <1>6, <1>7, <1>8 DEF ADAPTERS

-----------------------------------------------------------------------------
(* Types *)

\* Where a page leads is a cursor of one of the lists, or the end.
LEMMA LeadsTo ==
    ASSUME Bounds, TypeInv, Going("list"), NEW a, Leads(a)
    PROVE  /\ a.next = End \/ (a.next \in Places /\ a.next.list \in ListsOf(platform) /\ a.next # End)
           /\ a.next # End /\ ~ByNumber(a.next.list) => a.next.at <= listed
<1>1. position # End
  BY DEF Going, TypeInv, ListsTypeOK
<1>2. Reading \in ListsOf(platform) /\ "end" \notin ListsOf(platform)
  BY <1>1, ReadingList, Lists DEF TypeInv, ListsTypeOK
<1>3. \A c : c.list # "end" => c # End
  BY DEF End, CursorAt
<1>4. CASE a.next = End
  BY <1>4
<1>5. CASE /\ a.next \in Places /\ a.next.list = Reading
           /\ ~ByNumber(Reading) => a.next.at <= listed
  BY <1>2, <1>3, <1>5
<1>6. CASE /\ platform = "bilibili" /\ Reading \in {"video", "article"}
           /\ a.next = Next_source(Reading)
  <2>1. PICK list \in {"article", "dynamic"} : a.next = CursorAt(list, 0)
    BY <1>6 DEF Next_source
  <2>2. a.next = [list |-> list, at |-> 0, author |-> None]
    BY <2>1 DEF CursorAt
  <2>3. list \in ListsOf(platform) /\ 0 \in 0 .. MaxWorks + 1 /\ 0 <= listed
    BY <1>6, Lists DEF TypeInv, ListsTypeOK, Bounds
  <2>4. QED
    BY <1>2, <1>3, <2>2, <2>3 DEF Places
<1>7. QED
  BY <1>4, <1>5, <1>6 DEF Leads

\* A page that is taken keeps the types.
LEMMA TakeType ==
    ASSUME Bounds, TypeInv, Going("list"), NEW a, Leads(a), Author \in Owners,
           Take(a), UNCHANGED <<platform, listed>>
    PROVE  /\ Passing' /\ position' \in Places' /\ End \notin passed'
           /\ outcome' \in {"none", "done"} /\ (outcome' = "done" <=> position' = End)
           /\ pages' \subseteq (ListsOf(platform) \union {"list"}) \X SUBSET (1 .. listed)
           /\ lastRows' \subseteq 1 .. listed
           /\ saved' \subseteq ListsOf(platform) \X (1 .. listed)
           /\ authors' \subseteq Owners /\ stale' \in BOOLEAN /\ unsure' \in BOOLEAN
<1> USE DEF TypeInv, ListsTypeOK
<1>1. Reading \in ListsOf(platform) /\ position # End
  BY ReadingList DEF Going
<1>2. a.items \subseteq 1 .. listed /\ a.sure \in BOOLEAN
  BY DEF Leads
<1>3. a.next = End \/ (a.next \in Places /\ a.next.list \in ListsOf(platform) /\ a.next # End)
  BY LeadsTo
<1>4. a.next # End /\ ~ByNumber(a.next.list) => a.next.at <= listed
  BY LeadsTo
<1>5. position' = a.next /\ passed' = IF a.next = End THEN passed ELSE passed \union {a.next}
  BY DEF Take
<1>6. Passing' /\ End \notin passed'
  <2>1. ASSUME NEW p \in passed'
        PROVE  p \in Places /\ p.list \in ListsOf(platform) /\ (~ByNumber(p.list) => p.at <= listed) /\ p # End
    <3>1. CASE p \in passed
      BY <3>1 DEF Passing
    <3>2. CASE p = a.next /\ a.next # End
      BY <3>2, <1>3, <1>4
    <3>3. QED
      BY <1>5, <2>1, <3>1, <3>2
  <2>2. position' \in passed' \union {Start, End}
    BY <1>5
  <2>3. Places' = Places /\ (\A list : ByNumber(list)' = ByNumber(list))
    BY DEF Places, ByNumber
  <2>4. passed' \subseteq {p \in Places : p.list \in ListsOf(platform)}
    BY <2>1
  <2>5. QED
    BY <2>1, <2>2, <2>3, <2>4 DEF Passing
<1>7. position' \in Places'
  <2>1. Places' = Places
    BY DEF Places
  <2>2. End = [list |-> "end", at |-> 0, author |-> None]
    BY DEF End, CursorAt
  <2>3. End \in Places
    BY <2>2 DEF Places, Bounds
  <2>4. QED
    BY <1>3, <1>5, <2>1, <2>3
<1>8. outcome' \in {"none", "done"} /\ (outcome' = "done" <=> position' = End)
  BY <1>5 DEF Take
<1>9. pages' \subseteq (ListsOf(platform) \union {"list"}) \X SUBSET (1 .. listed)
  <2>1. Source \in ListsOf(platform) \union {"list"}
    BY <1>1 DEF Source
  <2>2. pages' \subseteq pages \union {<<Source, a.items>>}
    BY DEF Take
  <2>3. QED
    BY <1>2, <2>1, <2>2
<1>10. lastRows' \subseteq 1 .. listed
  BY <1>2 DEF Take
<1>11. saved' \subseteq ListsOf(platform) \X (1 .. listed)
  <2>1. saved' = saved \union {<<Reading, w>> : w \in a.items}
    BY DEF Take
  <2>2. {<<Reading, w>> : w \in a.items} \subseteq ListsOf(platform) \X (1 .. listed)
    BY <1>1, <1>2
  <2>3. QED
    BY <2>1, <2>2
<1>12. authors' \subseteq Owners
  BY DEF Take
<1>13. stale' \in BOOLEAN /\ unsure' \in BOOLEAN
  BY Zenon DEF Take
<1>14. QED
  BY <1>6, <1>7, <1>8, <1>9, <1>10, <1>11, <1>12, <1>13

\* A new session is one of the platform's.
LEMMA NewSessionType ==
    ASSUME TypeInv, Bounds, NewSession
    PROVE  /\ step' = "ready" /\ tries' = 0 /\ candidate' = None /\ known' = None
           /\ held' = {holder}
           /\ session' \in [open : BOOLEAN, browser : BOOLEAN, since : 0 .. MaxWorks]
           /\ session'.open = FALSE /\ (platform = "sina_blog" => session'.browser = FALSE)
<1>1. PICK b \in FirstModes : session' = Closed(b)
  BY DEF NewSession
<1>2. b \in BOOLEAN /\ (platform = "sina_blog" => b = FALSE)
  BY DEF FirstModes, BROWSER_LISTS
<1>3. session' = [open |-> FALSE, browser |-> b, since |-> 0]
  BY <1>1 DEF Closed
<1>4. QED
  BY <1>2, <1>3 DEF NewSession, Bounds

\* Steps that leave the walk and the works alone.
LEMMA QuietType ==
    ASSUME Bounds, TypeInv,
           UNCHANGED <<platform, caller, listed, first, walkVars, outcome>>,
           account' \in BOOLEAN, restarts' \in 0 .. MaxRestarts,
           step' \in {"ready", "lookup", "verify", "search", "keep", "list"}, tries' \in 0 .. 2,
           session' \in [open : BOOLEAN, browser : BOOLEAN, since : 0 .. MaxWorks],
           session'.open => first <= session'.since /\ session'.since <= listed,
           platform = "sina_blog" => ~session'.browser,
           holder' \in held', held' \subseteq Owners,
           {stored', candidate', known'} \subseteq Owners \union {None}
    PROVE  TypeInv'
<1>1. UNCHANGED <<position, passed, pages, lastRows, saved, unsure, authors, stale>>
  BY DEF walkVars
<1>2. ListsTypeOK'
  BY <1>1 DEF TypeInv, ListsTypeOK, End, CursorAt
<1>3. Passing'
  BY <1>1 DEF TypeInv, Passing, Places, ByNumber, Start, End, CursorAt
<1>4. Opened'
  BY DEF Opened
<1>5. QED
  BY <1>2, <1>3, <1>4 DEF TypeInv

LEMMA SessionUpdate ==
    ASSUME NEW s \in [open : BOOLEAN, browser : BOOLEAN, since : 0 .. MaxWorks],
           NEW b \in BOOLEAN, NEW m \in 0 .. MaxWorks,
           NEW r, r = [s EXCEPT !.open = b, !.since = m]
    PROVE  /\ r \in [open : BOOLEAN, browser : BOOLEAN, since : 0 .. MaxWorks]
           /\ r.open = b /\ r.browser = s.browser /\ r.since = m
  OBVIOUS

\* Every step keeps the types.
LEMMA TypeStep ==
    ASSUME Bounds, TypeInv, OwnerInv, [ListsNext]_listVars
    PROVE  TypeInv'
<1> USE DEF worldVars, walkVars, holderVars, sessionVars
<1>t. /\ account \in BOOLEAN /\ restarts \in 0 .. MaxRestarts /\ tries \in 0 .. 2
      /\ step \in {"ready", "lookup", "verify", "search", "keep", "list"}
      /\ session \in [open : BOOLEAN, browser : BOOLEAN, since : 0 .. MaxWorks]
      /\ session.open => first <= session.since /\ session.since <= listed
      /\ platform = "sina_blog" => ~session.browser
      /\ first \in Nat /\ listed \in Nat /\ first <= listed /\ listed <= MaxWorks /\ MaxWorks \in Nat
      /\ listed \in 0 .. MaxWorks /\ 0 \in 0 .. MaxWorks
  BY DEF TypeInv, ListsTypeOK, Opened, Bounds
<1>o. /\ holder \in held /\ held \subseteq Owners /\ holder \in Owners
      /\ stored \in Owners \union {None} /\ candidate \in Owners \union {None}
      /\ known \in Owners \union {None}
  BY DEF TypeInv, ListsTypeOK
<1>a. ASSUME Going("list") PROVE Author \in Owners
  <2>1. step = "list"
    BY <1>a DEF Going
  <2>2. platform \in Handled => known # None
    BY <2>1 DEF OwnerInv, Resolved
  <2>3. QED
    BY <2>2, <1>o DEF Author
<1>1. CASE OpenSession
  <2>1. session' = [session EXCEPT !.open = TRUE, !.since = listed]
        /\ UNCHANGED <<worldVars, walkVars, holderVars, step, tries, outcome, restarts>>
        /\ TRUE \in BOOLEAN
    BY <1>1 DEF OpenSession
  <2>2. /\ session' \in [open : BOOLEAN, browser : BOOLEAN, since : 0 .. MaxWorks]
        /\ session'.since = listed /\ session'.browser = session.browser
    BY <1>t, <2>1, SessionUpdate
  <2>3. QED
    BY <1>t, <1>o, <2>1, <2>2, QuietType
<1>2. CASE Rotate
  <2>1. session' = [session EXCEPT !.open = FALSE, !.since = 0]
        /\ UNCHANGED <<worldVars, walkVars, holderVars, step, tries, outcome, restarts>>
        /\ FALSE \in BOOLEAN
    BY <1>2 DEF Rotate
  <2>2. /\ session' \in [open : BOOLEAN, browser : BOOLEAN, since : 0 .. MaxWorks]
        /\ ~session'.open /\ session'.browser = session.browser
    BY <1>t, <2>1, SessionUpdate
  <2>3. QED
    BY <1>t, <1>o, <2>1, <2>2, QuietType
<1>3. CASE AttemptFails
  <2>1. PICK b \in {session.browser} \union (IF Switches THEN {TRUE} ELSE {}) : session' = Closed(b)
    BY <1>3 DEF AttemptFails
  <2>2. b \in BOOLEAN /\ (platform = "sina_blog" => ~b)
    BY <1>t, <2>1 DEF Switches
  <2>3. session' = [open |-> FALSE, browser |-> b, since |-> 0]
    BY <2>1 DEF Closed
  <2>4. session' \in [open : BOOLEAN, browser : BOOLEAN, since : 0 .. MaxWorks] /\ ~session'.open
        /\ (platform = "sina_blog" => ~session'.browser)
    BY <1>t, <2>2, <2>3
  <2>5. tries' \in 0 .. 2 /\ step' = "ready"
        /\ UNCHANGED <<worldVars, walkVars, holderVars, outcome, restarts>>
    BY <1>3, <1>t DEF AttemptFails
  <2>6. QED
    BY <1>t, <1>o, <2>4, <2>5, QuietType
<1>4. CASE Stop \/ RefuseRepeated
  <2>1. outcome = "none" /\ outcome' = "stopped"
        /\ UNCHANGED <<worldVars, walkVars, holderVars, step, tries, session, restarts>>
    BY <1>4 DEF Stop, RefuseRepeated, Going
  <2>2. ListsTypeOK'
    BY <2>1 DEF TypeInv, ListsTypeOK, End, CursorAt
  <2>3. Passing' /\ Opened'
    BY <2>1 DEF TypeInv, Passing, Opened, Places, ByNumber, Start, End, CursorAt
  <2>4. QED
    BY <2>2, <2>3 DEF TypeInv
<1>5. CASE ResumeList
  <2>1. NewSession /\ outcome = "stopped" /\ outcome' = "none" /\ restarts' = restarts + 1
        /\ restarts < MaxRestarts /\ UNCHANGED <<walkVars, platform, caller, listed, first, holder, stored>>
        /\ account' \in BOOLEAN
    BY <1>5 DEF ResumeList
  <2>2. /\ step' = "ready" /\ tries' = 0 /\ candidate' = None /\ known' = None
        /\ held' = {holder}
        /\ session' \in [open : BOOLEAN, browser : BOOLEAN, since : 0 .. MaxWorks]
        /\ session'.open = FALSE /\ (platform = "sina_blog" => session'.browser = FALSE)
    BY <2>1, NewSessionType
  <2>3. restarts' \in 0 .. MaxRestarts
    BY <1>t, <2>1 DEF Bounds
  <2>4. ListsTypeOK'
    BY <2>1, <2>2, <2>3 DEF TypeInv, ListsTypeOK, End, CursorAt
  <2>5. Passing' /\ Opened'
    BY <2>1, <2>2 DEF TypeInv, Passing, Opened, Places, ByNumber, Start, End, CursorAt
  <2>6. QED
    BY <2>4, <2>5 DEF TypeInv
<1>6. CASE BeginPage
  BY <1>6, <1>t, <1>o, QuietType DEF BeginPage
<1>7. CASE Lookup
  BY <1>7, <1>t, <1>o, QuietType DEF Lookup
<1>8. CASE Verify
  BY <1>8, <1>t, <1>o, QuietType DEF Verify
<1>9. CASE Search
  BY <1>9, <1>t, <1>o, QuietType DEF Search
<1>10. CASE Keep
  BY <1>10, <1>t, <1>o, QuietType DEF Keep
<1>11. CASE SaveListPage
  <2>n. PICK n \in Moments : \E a \in PageAnswers(n) : ~Repeated(a) /\ Take(a)
    BY <1>11 DEF SaveListPage
  <2>1. PICK a \in PageAnswers(n) : ~Repeated(a) /\ Take(a)
    BY <2>n
  <2>2. Going("list") /\ step' = "ready" /\ tries' = 0
        /\ UNCHANGED <<worldVars, holderVars, session, restarts>>
    BY <1>11 DEF SaveListPage
  <2>3. Leads(a)
    BY <2>2, AnyAnswer
  <2>4. /\ Passing' /\ position' \in Places' /\ End \notin passed'
        /\ outcome' \in {"none", "done"} /\ (outcome' = "done" <=> position' = End)
        /\ pages' \subseteq (ListsOf(platform) \union {"list"}) \X SUBSET (1 .. listed)
        /\ lastRows' \subseteq 1 .. listed
        /\ saved' \subseteq ListsOf(platform) \X (1 .. listed)
        /\ authors' \subseteq Owners /\ stale' \in BOOLEAN /\ unsure' \in BOOLEAN
    BY <1>a, <2>1, <2>2, <2>3, TakeType
  <2>5. ListsTypeOK'
    BY <2>2, <2>4 DEF TypeInv, ListsTypeOK, End, CursorAt, Places
  <2>6. Opened'
    BY <1>t, <2>2 DEF Opened
  <2>7. QED
    BY <2>4, <2>5, <2>6 DEF TypeInv
<1>12. CASE ReturnPage
  <2>n. PICK n \in Moments : \E a \in PageAnswers(n) : Take(a)
    BY <1>12 DEF ReturnPage
  <2>1. PICK a \in PageAnswers(n) : Take(a)
    BY <2>n
  <2>2. Going("list") /\ NewSession /\ UNCHANGED <<worldVars, holder, stored, restarts>>
    BY <1>12 DEF ReturnPage
  <2>3. Leads(a)
    BY <2>2, AnyAnswer
  <2>4. /\ Passing' /\ position' \in Places' /\ End \notin passed'
        /\ outcome' \in {"none", "done"} /\ (outcome' = "done" <=> position' = End)
        /\ pages' \subseteq (ListsOf(platform) \union {"list"}) \X SUBSET (1 .. listed)
        /\ lastRows' \subseteq 1 .. listed
        /\ saved' \subseteq ListsOf(platform) \X (1 .. listed)
        /\ authors' \subseteq Owners /\ stale' \in BOOLEAN /\ unsure' \in BOOLEAN
    BY <1>a, <2>1, <2>2, <2>3, TakeType
  <2>5. /\ step' = "ready" /\ tries' = 0 /\ candidate' = None /\ known' = None
        /\ held' = {holder}
        /\ session' \in [open : BOOLEAN, browser : BOOLEAN, since : 0 .. MaxWorks]
        /\ session'.open = FALSE /\ (platform = "sina_blog" => session'.browser = FALSE)
    BY <2>2, NewSessionType
  <2>6. ListsTypeOK'
    BY <2>2, <2>4, <2>5 DEF TypeInv, ListsTypeOK, End, CursorAt, Places
  <2>7. Opened'
    BY <2>2, <2>5 DEF Opened
  <2>8. QED
    BY <2>4, <2>6, <2>7 DEF TypeInv
<1>13. CASE Publish
  <2>1. listed' = listed + 1 /\ listed < MaxWorks
        /\ UNCHANGED <<platform, caller, account, first, walkVars, holderVars, sessionVars>>
    BY <1>13 DEF Publish
  <2>2. 1 .. listed \subseteq 1 .. listed' /\ listed' \in first .. MaxWorks
    BY <1>t, <2>1
  <2>3. ListsTypeOK'
    BY <2>1, <2>2 DEF TypeInv, ListsTypeOK, End, CursorAt
  <2>4. Passing'
    <3>1. ASSUME NEW p \in passed, ~ByNumber(p.list)' PROVE p.at <= listed'
      BY <1>t, <2>1, <3>1 DEF TypeInv, Passing, Places, ByNumber
    <3>2. QED
      BY <2>1, <3>1 DEF TypeInv, Passing, Places, Start, End, CursorAt
  <2>5. Opened'
    BY <1>t, <2>1 DEF Opened
  <2>6. QED
    BY <2>3, <2>4, <2>5 DEF TypeInv
<1>14. CASE ChangeHands
  BY <1>14, <1>t, <1>o, QuietType DEF ChangeHands
<1>15. CASE OtherDiscovery
  BY <1>15, <1>t, <1>o, QuietType DEF OtherDiscovery
<1>16. CASE ListEnded \/ UNCHANGED listVars
  BY <1>16, <1>t, <1>o, QuietType DEF ListEnded, listVars
<1>17. QED
  BY <1>1, <1>2, <1>3, <1>4, <1>5, <1>6, <1>7, <1>8, <1>9, <1>10, <1>11, <1>12, <1>13, <1>14,
     <1>15, <1>16 DEF ListsNext

-----------------------------------------------------------------------------
(* Whose works *)

\* A page that is taken is of the author that the session knows.
LEMMA TakeOwner ==
    ASSUME Bounds, TypeInv, OwnerInv, Going("list"), OwnCursor, NEW a, Leads(a), Take(a),
           platform' = platform
    PROVE  ~stale' /\ OneList'
<1>1. step = "list" /\ position # End
  BY DEF Going, TypeInv, ListsTypeOK
<1>2. Author \in held /\ Author \in Owners
  BY <1>1 DEF Author, OwnerInv, Resolved, Known, TypeInv, ListsTypeOK
<1>3. ~stale'
  BY <1>2 DEF Take, OwnerInv
<1>4. ASSUME platform = "douyin" PROVE authors' \subseteq {known} /\ known \in Owners
  <2>1. Author = known
    BY <1>4 DEF Author, Handled
  <2>2. position.author \in {None, known}
    BY <1>4 DEF OwnCursor
  <2>3. authors \subseteq {position.author} /\ authors \subseteq Owners
    BY <1>1, <1>4 DEF OwnerInv, OneList, TypeInv, ListsTypeOK
  <2>4. authors \subseteq {known}
    BY <2>2, <2>3 DEF Bounds
  <2>5. QED
    BY <1>2, <2>1, <2>4 DEF Take
<1>5. ASSUME platform = "douyin", position' # End PROVE position'.author = known
  BY <1>5 DEF Take, Leads
<1>6. End' = End
  BY DEF End, CursorAt
<1>7. QED
  BY <1>3, <1>4, <1>5, <1>6 DEF OneList

\* What is known may change when what was saved does not.
LEMMA QuietOwner ==
    ASSUME OwnerInv, UNCHANGED <<platform, walkVars>>, Known', Resolved'
    PROVE  OwnerInv'
  BY DEF OwnerInv, OneList, walkVars, End, CursorAt

\* Every step keeps it.
LEMMA OwnerStep ==
    ASSUME Bounds, TypeInv, OwnerInv, [ListsNext]_listVars
    PROVE  OwnerInv'
<1> USE DEF worldVars, holderVars, sessionVars
<1>t. holder \in held /\ holder \in Owners /\ held \subseteq Owners /\ known \in Owners \union {None}
  BY DEF TypeInv, ListsTypeOK
<1>o. Known /\ Resolved
  BY DEF OwnerInv
<1>1. CASE OpenSession \/ Rotate \/ Stop \/ RefuseRepeated \/ Publish \/ OtherDiscovery \/ ListEnded
           \/ UNCHANGED listVars
  <2>1. UNCHANGED <<platform, walkVars, known, held, step>>
    BY <1>1 DEF OpenSession, Rotate, Stop, RefuseRepeated, Publish, OtherDiscovery, ListEnded, listVars
  <2>2. Known' /\ Resolved'
    BY <1>o, <2>1 DEF Known, Resolved, Handled
  <2>3. QED
    BY <2>1, <2>2, QuietOwner
<1>2. CASE AttemptFails
  <2>1. UNCHANGED <<platform, walkVars, known, held>> /\ step' = "ready"
    BY <1>2 DEF AttemptFails
  <2>2. Known' /\ Resolved'
    BY <1>o, <2>1 DEF Known, Resolved, Handled
  <2>3. QED
    BY <2>1, <2>2, QuietOwner
<1>3. CASE ResumeList
  <2>1. UNCHANGED <<platform, walkVars>> /\ known' = None /\ step' = "ready"
    BY <1>3 DEF ResumeList, NewSession
  <2>2. Known' /\ Resolved'
    BY <2>1 DEF Known, Resolved, Handled
  <2>3. QED
    BY <2>1, <2>2, QuietOwner
<1>4. CASE BeginPage
  <2>1. UNCHANGED <<platform, walkVars, known, held>>
        /\ step' \in {"list", "lookup", "search"} /\ (step' = "list" => ~Resolves)
    BY <1>4 DEF BeginPage
  <2>2. Known' /\ Resolved'
    BY <1>o, <2>1 DEF Known, Resolved, Resolves, Handled
  <2>3. QED
    BY <2>1, <2>2, QuietOwner
<1>5. CASE Lookup
  <2>1. UNCHANGED <<platform, walkVars, known, held>> /\ step' \in {"search", "verify"}
    BY <1>5 DEF Lookup
  <2>2. Known' /\ Resolved'
    BY <1>o, <2>1 DEF Known, Resolved, Handled
  <2>3. QED
    BY <2>1, <2>2, QuietOwner
<1>6. CASE Verify
  <2>1. /\ UNCHANGED <<platform, walkVars, holder, held>>
        /\ \/ holder = candidate /\ known' = candidate /\ step' = "keep"
           \/ step' = "search" /\ known' = known
    BY <1>6 DEF Verify
  <2>2. Known' /\ Resolved'
    BY <1>t, <1>o, <2>1 DEF Known, Resolved, Handled, Bounds
  <2>3. QED
    BY <2>1, <2>2, QuietOwner
<1>7. CASE Search
  <2>1. /\ UNCHANGED <<platform, walkVars, holder, held>>
        /\ known' \in held
    BY <1>7, <1>t DEF Search
  <2>2. Known' /\ Resolved'
    BY <1>t, <1>o, <2>1 DEF Known, Resolved, Handled, Bounds
  <2>3. QED
    BY <2>1, <2>2, QuietOwner
<1>8. CASE Keep
  <2>1. UNCHANGED <<platform, walkVars, known, held>> /\ step = "keep"
    BY <1>8 DEF Keep, Going
  <2>2. Known' /\ Resolved'
    BY <1>o, <2>1 DEF Known, Resolved, Handled
  <2>3. QED
    BY <2>1, <2>2, QuietOwner
<1>9. CASE SaveListPage
  <2>n. PICK n \in Moments : \E a \in PageAnswers(n) : ~Repeated(a) /\ Take(a)
    BY <1>9 DEF SaveListPage
  <2>1. PICK a \in PageAnswers(n) : ~Repeated(a) /\ Take(a)
    BY <2>n
  <2>2. Going("list") /\ OwnCursor /\ UNCHANGED <<platform, known, held>> /\ step' = "ready"
    BY <1>9 DEF SaveListPage
  <2>3. ~stale' /\ OneList'
    BY <2>1, <2>2, AnyAnswer, TakeOwner
  <2>4. Known' /\ Resolved'
    BY <1>o, <2>2 DEF Known, Resolved, Handled
  <2>5. QED
    BY <2>3, <2>4 DEF OwnerInv
<1>10. CASE ReturnPage
  <2>n. PICK n \in Moments : \E a \in PageAnswers(n) : Take(a)
    BY <1>10 DEF ReturnPage
  <2>1. PICK a \in PageAnswers(n) : Take(a)
    BY <2>n
  <2>2. Going("list") /\ OwnCursor /\ platform' = platform /\ known' = None /\ step' = "ready"
    BY <1>10 DEF ReturnPage, NewSession
  <2>3. ~stale' /\ OneList'
    BY <2>1, <2>2, AnyAnswer, TakeOwner
  <2>4. Known' /\ Resolved'
    BY <2>2 DEF Known, Resolved, Handled
  <2>5. QED
    BY <2>3, <2>4 DEF OwnerInv
<1>11. CASE ChangeHands
  <2>1. UNCHANGED <<platform, walkVars, known, step>> /\ held \subseteq held'
    BY <1>11 DEF ChangeHands
  <2>2. Known' /\ Resolved'
    BY <1>o, <2>1 DEF Known, Resolved, Handled
  <2>3. QED
    BY <2>1, <2>2, QuietOwner
<1>12. QED
  BY <1>1, <1>2, <1>3, <1>4, <1>5, <1>6, <1>7, <1>8, <1>9, <1>10, <1>11 DEF ListsNext

-----------------------------------------------------------------------------
(* Nothing is left out *)

LEMMA Later ==
    ASSUME NEW n \in Nat, NEW m \in {n, n + 1}, NEW w \in Nat, NEW k \in Int, m - w < k
    PROVE  n - w < k
  OBVIOUS

\* More works of the author put the others behind no further cursor.
LEMMA BehindKept ==
    ASSUME Bounds, TypeInv, platform' = platform, first' = first, listed' \in {listed, listed + 1},
           NEW p \in passed
    PROVE  Behind(p)' \subseteq Behind(p)
<1>1. p.at \in Nat /\ listed \in Nat /\ first \in Nat
  BY DEF TypeInv, ListsTypeOK, Passing, Places, Bounds
<1>2. \A list : ByNumber(list)' = ByNumber(list)
  BY DEF ByNumber
<1> DEFINE k == (p.at - 1) * Size
<1>3. k \in Int
  BY <1>1 DEF Bounds
<1> HIDE DEF k
<1>4. ASSUME NEW w \in Behind(p)' PROVE w \in Behind(p)
  <2>1. w \in 1 .. first /\ p.at > 0
        /\ IF ByNumber(p.list) THEN listed' - w < k ELSE w >= p.at
    BY <1>2, <1>4 DEF Behind, k
  <2>2. listed' - w < k => listed - w < k
    <3>1. w \in Nat
      BY <1>1, <2>1
    <3>2. listed \in Nat /\ k \in Int /\ listed' \in {listed, listed + 1}
      BY <1>1, <1>3
    <3>3. QED
      BY <3>1, <3>2, Later
  <2>3. IF ByNumber(p.list) THEN listed - w < k ELSE w >= p.at
    BY <2>1, <2>2
  <2>4. QED
    BY <2>1, <2>3 DEF Behind, k
<1>5. QED
  BY <1>4

\* Steps that leave the walk alone.
LEMMA QuietList ==
    ASSUME Bounds, TypeInv, ListInv,
           UNCHANGED <<platform, first, walkVars>>, listed' \in {listed, listed + 1}
    PROVE  ListInv'
<1>1. UNCHANGED <<position, passed, pages, lastRows, saved, unsure>>
  BY DEF walkVars
<1>2. Rowed'
  <2>1. ASSUME lastRows # {} PROVE Source' = Source
    <3>1. position.list # "start"
      BY <2>1, Lists DEF ListInv, Rowed, TypeInv, ListsTypeOK
    <3>2. Reading = position.list /\ Reading' = position.list
      BY <1>1, <3>1, Zenon DEF Reading
    <3>3. QED
      BY <3>2 DEF Source
  <2>2. QED
    BY <1>1, <2>1 DEF ListInv, Rowed
<1>3. AllBehind => AllBehind'
  BY <1>1, BehindKept DEF AllBehind
<1>4. Earlier => Earlier'
  BY <1>1 DEF Earlier, Has
<1>5. AtEnd => AtEnd'
  BY <1>1 DEF AtEnd, Has, End, CursorAt
<1>6. QED
  BY <1>1, <1>2, <1>3, <1>4, <1>5 DEF ListInv, Kept

\* All of a list is saved after the step.
Full(list) == \A w \in 1 .. first : <<list, w>> \in saved'

\* A page that is taken leaves nothing out when the walk is sure of it.
LEMMA TakeList ==
    ASSUME Bounds, TypeInv, ListInv, Going("list"), NEW a, Leads(a), Take(a),
           Rowed /\ AllBehind /\ a.sure /\ Taken(a) => Whole(a), Taken(a),
           UNCHANGED <<platform, first, listed>>
    PROVE  ListInv'
<1>1. position # End /\ Reading \in ListsOf(platform) /\ platform \in ADAPTERS
  BY ReadingList DEF Going, TypeInv, ListsTypeOK
<1>2. Reading # "start" /\ Reading # "end"
  BY <1>1, Lists
<1>3. position' = a.next /\ passed' = IF a.next = End THEN passed ELSE passed \union {a.next}
  BY DEF Take
<1>4. saved' = saved \union {<<Reading, w>> : w \in a.items}
  BY DEF Take
<1>5. \A w : Now(a, w) => <<Reading, w>> \in saved'
  BY <1>4 DEF Now
<1>6. Rowed'
  <2>1. ASSUME lastRows' # {}
        PROVE  position'.list = Reading /\ lastRows' = a.items /\ a.items # {}
    BY <2>1, <1>3 DEF Take
  <2>2. ASSUME lastRows' # {} PROVE Source' = Source
    <3>1. Reading' = Reading
      BY <1>2, <2>1, <2>2, Zenon DEF Reading
    <3>2. QED
      BY <3>1 DEF Source
  <2>3. ASSUME lastRows' # {} PROVE <<Source, a.items>> \in pages'
    BY <2>1, <2>3 DEF Take
  <2>4. ListsOf(platform)' = ListsOf(platform)
    BY DEF ListsOf
  <2>5. QED
    BY <1>1, <2>1, <2>2, <2>3, <2>4 DEF Rowed
<1>7. ASSUME ~unsure' PROVE AllBehind' /\ Earlier' /\ AtEnd'
  <2>1. ~unsure /\ a.sure
    BY <1>7 DEF Take
  <2>2. AllBehind /\ Earlier /\ Whole(a)
    BY <2>1 DEF ListInv, Kept
  <2>3. a.next.list # Reading => \A w \in 1 .. first : <<Reading, w>> \in saved'
    BY <1>5, <2>2 DEF Whole
  <2>4. \A list : (Has(list) => Full(list)) /\ (Full(list) <=> Has(list)')
    BY <1>4 DEF Has, Full
  <2>5. a.next.list # Reading => Full(Reading)
    BY <2>3 DEF Full
  <2>6. AllBehind'
    <3>1. ASSUME NEW p \in passed, NEW w \in Behind(p)' PROVE <<p.list, w>> \in saved'
      <4>1. w \in Behind(p)
        BY <3>1, BehindKept
      <4>2. QED
        BY <1>4, <2>2, <4>1 DEF AllBehind
    <3>2. ASSUME a.next # End, NEW w \in Behind(a.next)' PROVE <<a.next.list, w>> \in saved'
      <4>1. w \in Behind(a.next)
        BY <3>2 DEF Behind, ByNumber
      <4>2. CASE a.next.list = Reading
        BY <1>5, <2>2, <4>1, <4>2 DEF Whole
      <4>3. CASE a.next.list # Reading
        <5>1. a.next = Next_source(Reading)
          BY <3>2, <4>3 DEF Leads
        <5>2. a.next.at = 0
          BY <5>1 DEF Next_source, CursorAt
        <5>3. QED
          BY <4>1, <5>2 DEF Behind
      <4>4. QED
        BY <4>2, <4>3
    <3>3. ASSUME NEW p \in passed', NEW w \in Behind(p)' PROVE <<p.list, w>> \in saved'
      <4>1. CASE p \in passed
        BY <3>1, <3>3, <4>1
      <4>2. CASE p = a.next /\ a.next # End
        BY <3>2, <3>3, <4>2
      <4>3. QED
        BY <1>3, <4>1, <4>2
    <3>4. QED
      BY <3>3 DEF AllBehind
  <2>7. Earlier'
    <3>1. Reading \in {"article", "dynamic"} => Reading = position.list
      BY <1>1, ReadingList
    <3>2. CASE a.next.list = Reading
      <4>1. position'.list = Reading
        BY <1>3, <3>2
      <4>2. QED
        BY <2>2, <2>4, <3>1, <4>1 DEF Earlier
    <3>3. CASE a.next = End
      <4>1. position'.list = "end"
        BY <1>3, <3>3 DEF End, CursorAt
      <4>2. QED
        BY <4>1 DEF Earlier
    <3>4. CASE /\ platform = "bilibili" /\ Reading \in {"video", "article"}
               /\ a.next = Next_source(Reading)
      <4>1. a.next.list = IF Reading = "video" THEN "article" ELSE "dynamic"
        BY <3>4 DEF Next_source, CursorAt
      <4>2. Full(Reading)
        BY <2>5, <3>4, <4>1
      <4>3. CASE Reading = "video"
        <5>1. position'.list = "article" /\ Full("video")
          BY <1>3, <4>1, <4>2, <4>3
        <5>2. QED
          BY <2>4, <5>1 DEF Earlier
      <4>4. CASE Reading = "article"
        <5>1. Has("video")
          BY <2>2, <3>1, <4>4 DEF Earlier
        <5>2. position'.list = "dynamic" /\ Full("article") /\ Full("video")
          BY <1>3, <2>4, <4>1, <4>2, <4>4, <5>1
        <5>3. QED
          BY <2>4, <5>2 DEF Earlier
      <4>5. QED
        BY <3>4, <4>3, <4>4
    <3>5. QED
      BY <3>2, <3>3, <3>4 DEF Leads
  <2>8. AtEnd'
    <3>1. SUFFICES ASSUME a.next = End
                   PROVE  IF platform = "weibo" THEN \E list \in ListsOf("weibo") : Full(list)
                          ELSE \A list \in ListsOf(platform) : Full(list)
      <4>1. End' = End
        BY DEF End, CursorAt
      <4>2. \A p : ListsOf(p)' = ListsOf(p)
        BY DEF ListsOf
      <4>3. QED
        BY <1>3, <2>4, <4>1, <4>2 DEF AtEnd
    <3>2. Full(Reading)
      BY <1>2, <2>5, <3>1 DEF End, CursorAt
    <3>3. CASE platform = "weibo"
      BY <1>1, <3>2, <3>3
    <3>4. CASE platform = "bilibili"
      <4>1. Reading = "dynamic"
        BY <3>1, <3>4, <1>1, Lists DEF Leads, Next_source, End, CursorAt
      <4>2. Has("video") /\ Has("article")
        BY <1>1, <2>2, <4>1, ReadingList DEF Earlier
      <4>3. QED
        BY <1>1, <2>4, <3>2, <3>4, <4>1, <4>2, Lists
    <3>5. CASE platform \notin {"weibo", "bilibili"}
      BY <1>1, <3>2, <3>5, Lists
    <3>6. QED
      BY <3>3, <3>4, <3>5
  <2>9. QED
    BY <2>6, <2>7, <2>8
<1>8. QED
  BY <1>6, <1>7 DEF ListInv, Kept

\* Every step keeps it.
LEMMA ListStep ==
    ASSUME Bounds, TypeInv, ListInv, [ListsNext]_listVars
    PROVE  ListInv'
<1> USE DEF worldVars, holderVars, sessionVars
<1>1. CASE SaveListPage
  <2>n. PICK n \in Moments : \E a \in PageAnswers(n) : ~Repeated(a) /\ Take(a)
    BY <1>1 DEF SaveListPage
  <2>1. PICK a \in PageAnswers(n) : ~Repeated(a) /\ Take(a)
    BY <2>n
  <2>2. Going("list") /\ UNCHANGED <<platform, first, listed>>
    BY <1>1 DEF SaveListPage
  <2>3. Leads(a) /\ (Rowed /\ AllBehind /\ a.sure /\ Taken(a) => Whole(a)) /\ Taken(a)
    BY <2>1, <2>2, AnyAnswer DEF Taken
  <2>4. QED
    BY <2>1, <2>2, <2>3, TakeList
<1>2. CASE ReturnPage
  <2>n. PICK n \in Moments : \E a \in PageAnswers(n) : Take(a)
    BY <1>2 DEF ReturnPage
  <2>1. PICK a \in PageAnswers(n) : Take(a)
    BY <2>n
  <2>2. Going("list") /\ UNCHANGED <<platform, first, listed>> /\ caller # "job"
    BY <1>2 DEF ReturnPage
  <2>3. Leads(a) /\ (Rowed /\ AllBehind /\ a.sure /\ Taken(a) => Whole(a)) /\ Taken(a)
    BY <2>1, <2>2, AnyAnswer DEF Taken
  <2>4. QED
    BY <2>1, <2>2, <2>3, TakeList
<1>3. CASE /\ UNCHANGED <<platform, first, walkVars>> /\ listed' \in {listed, listed + 1}
  BY <1>3, QuietList
<1>4. CASE Publish
  BY <1>4, <1>3 DEF Publish
<1>5. CASE OpenSession \/ Rotate \/ AttemptFails \/ Stop \/ ResumeList \/ BeginPage \/ Lookup \/ Verify \/ Search
           \/ Keep \/ RefuseRepeated \/ ChangeHands \/ OtherDiscovery \/ ListEnded \/ UNCHANGED listVars
  <2>1. UNCHANGED <<platform, first, listed, walkVars>>
    BY <1>5 DEF OpenSession, Rotate, AttemptFails, Stop, ResumeList, BeginPage, Lookup, Verify, Search, Keep,
                RefuseRepeated, ChangeHands, OtherDiscovery, ListEnded, listVars
  <2>2. QED
    BY <2>1, <1>3
<1>6. QED
  BY <1>1, <1>2, <1>4, <1>5 DEF ListsNext

-----------------------------------------------------------------------------
(* The theorems *)

LEMMA Initially ==
    ASSUME Bounds, ListsInit
    PROVE  IInv
<1>1. PICK b \in FirstModes : session = Closed(b)
  BY DEF ListsInit
<1>2. b \in BOOLEAN /\ (platform = "sina_blog" => b = FALSE)
  BY DEF FirstModes, BROWSER_LISTS
<1>3. session = [open |-> FALSE, browser |-> b, since |-> 0]
  BY <1>1 DEF Closed
<1>4. session \in [open : BOOLEAN, browser : BOOLEAN, since : 0 .. MaxWorks] /\ ~session.open
      /\ (platform = "sina_blog" => ~session.browser)
  BY <1>2, <1>3 DEF Bounds
<1>5. position = [list |-> "start", at |-> 0, author |-> None] /\ position # End
  BY DEF ListsInit, Start, End, CursorAt
<1>6. account \in BOOLEAN /\ stored \in Owners \union {None}
  BY Zenon DEF ListsInit
<1>7. ListsTypeOK
  <2>1. /\ platform \in ADAPTERS /\ caller \in {"job", "client"} /\ first \in 0 .. MaxWorks
        /\ listed = first /\ step = "ready" /\ tries = 0 /\ passed = {} /\ pages = {}
        /\ lastRows = {} /\ saved = {} /\ unsure = FALSE /\ outcome = "none" /\ restarts = 0
        /\ holder \in Owners /\ held = {holder} /\ candidate = None /\ known = None
        /\ authors = {} /\ stale = FALSE
    BY DEF ListsInit
  <2>2. listed \in first .. MaxWorks /\ 0 \in 0 .. 2 /\ 0 \in 0 .. MaxRestarts
    BY <2>1 DEF Bounds
  <2>3. position \in [list : ListsOf(platform) \union {"start", "end"}, at : 0 .. MaxWorks + 1,
                     author : Owners \union {None}]
    BY <1>5 DEF Bounds
  <2>4. QED
    BY <1>4, <1>5, <1>6, <2>1, <2>2, <2>3 DEF ListsTypeOK
<1>8. TypeInv
  BY <1>4, <1>7 DEF TypeInv, Passing, Opened, ListsInit
<1>9. OwnerInv
  BY <1>7 DEF OwnerInv, Known, Resolved, OneList, ListsInit, ListsTypeOK
<1>10. ListInv
  BY <1>5 DEF ListInv, Rowed, Kept, AllBehind, Earlier, AtEnd, ListsInit
<1>11. QED
  BY <1>8, <1>9, <1>10 DEF IInv

LEMMA InvariantStep ==
    ASSUME Bounds
    PROVE  IInv /\ [ListsNext]_listVars => IInv'
  BY TypeStep, OwnerStep, ListStep DEF IInv

\* The variables of an author's list keep their types: its position is a
\* cursor of one of the platform's lists, or one of their two ends.
THEOREM ListsTyped ==
    ASSUME Bounds
    PROVE  ListsSpec => []ListsTypeOK
<1>1. IInv => ListsTypeOK
  BY DEF IInv, TypeInv
<1>2. Bounds /\ ListsInit => IInv
  BY Initially
<1>3. QED
  BY <1>1, <1>2, InvariantStep, PTL DEF ListsSpec

\* A walk that has come to the end of an author's lists has every work that
\* was on them when it began, whatever the lists repeated or left out, unless
\* no check of the code could tell (_discover, _save_page,
\* app/crawlers/authors/).
THEOREM ListIsWhole ==
    ASSUME Bounds
    PROVE  ListsSpec => []ListHasAll
<1>1. IInv => ListHasAll
  <2> SUFFICES ASSUME IInv, outcome = "done", ~unsure
               PROVE  IF platform = "weibo" THEN \E list \in ListsOf("weibo") : Has(list)
                      ELSE \A list \in ListsOf(platform) : Has(list)
    BY DEF ListHasAll, Has
  <2>1. position = End
    BY DEF IInv, TypeInv, ListsTypeOK
  <2>2. QED
    BY <2>1 DEF IInv, ListInv, Kept, AtEnd
<1>2. Bounds /\ ListsInit => IInv
  BY Initially
<1>3. QED
  BY <1>1, <1>2, InvariantStep, PTL DEF ListsSpec

\* The works of an author's list are of one who has had the handle since the
\* session began, and those of a list of douyin of one author only
\* (resolve_douyin, the sec_uid of a cursor).
THEOREM WorksOfOneAuthor ==
    ASSUME Bounds
    PROVE  ListsSpec => []OneAuthor
<1>1. IInv => OneAuthor
  <2> SUFFICES ASSUME IInv, platform = "douyin" PROVE Cardinality(authors) <= 1
    BY DEF IInv, OwnerInv, OneAuthor
  <2>1. PICK o \in Owners : authors \subseteq {o}
    BY DEF IInv, OwnerInv, OneList
  <2>2. Cardinality({o}) = 1 /\ IsFiniteSet({o})
    BY FS_Singleton
  <2>3. Cardinality(authors) <= Cardinality({o})
    BY <2>1, <2>2, FS_Subset
  <2>4. QED
    BY <2>2, <2>3
<1>2. Bounds /\ ListsInit => IInv
  BY Initially
<1>3. QED
  BY <1>1, <1>2, InvariantStep, PTL DEF ListsSpec
=============================================================================

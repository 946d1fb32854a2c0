---------------------------- MODULE PagingProofs ----------------------------
(***************************************************************************)
(* What Paging keeps for collections and pages of every size, for all      *)
(* values of the arguments and any set of businesses.                      *)
(*                                                                         *)
(* The loop is right because skip counts the items it has: as long as all  *)
(* pages came from one business, and no item was deleted from it or put    *)
(* before the place reached, the items read are the first ones of its      *)
(* collection, and skip is how many they are (SteadyInv).  A short page    *)
(* then means that the collection ended there when the page was read.  And *)
(* a page that does not end the loop takes an item that is still wanted,   *)
(* so that max_items bounds the loop.                                      *)
(***************************************************************************)
EXTENDS Paging, SequenceTheorems, TLAPS

\* So far the call has read nothing but the first items of one collection,
\* which has at least as many items as when the call started.
SteadyInv ==
    (steady /\ ~shifted /\ ~single) =>
        LET n == Len(all_items) IN
        /\ before <= remote[Selected]
        /\ n <= remote[Selected]
        /\ all_items = Items(Selected, 1, n)
        /\ pc \in {"next", "waiting"} => skip = n
        /\ pc = "waiting" => asked = Selected
        /\ pc = "returned" => n >= Lower(max_items, before)

PagingInv ==
    /\ TypeOK
    /\ pc = "waiting" => asked \in Business
    /\ SteadyInv

-----------------------------------------------------------------------------
(* The operators.                                                          *)

Item == Business \X (1 .. MaxItem)

\* The items of a collection behind position m, up to n, in their order.
LEMMA ItemsProperties ==
  ASSUME NEW b \in Business, NEW n \in 0 .. MaxItem, NEW m \in Nat, m <= n
  PROVE  /\ Items(b, m + 1, n) \in Seq(Item)
         /\ Len(Items(b, m + 1, n)) = n - m
         /\ \A i \in 1 .. n - m : Items(b, m + 1, n)[i] = <<b, m + i>>
<1> DEFINE k == n - m
<1>1. k \in Nat /\ n - (m + 1) + 1 = k /\ \A i \in 1 .. k : m + 1 + i - 1 = m + i
  BY ArgumentsAreNumbers
<1>2. Items(b, m + 1, n) = [i \in 1 .. k |-> <<b, m + i>>]
  BY <1>1 DEF Items
<1>3. ASSUME NEW i \in 1 .. k PROVE <<b, m + i>> \in Item
  <2>1. m + i \in 1 .. MaxItem
    BY ArgumentsAreNumbers
  <2> QED
    BY <2>1 DEF Item
<1> HIDE DEF k
<1>4. Items(b, m + 1, n) \in [1 .. k -> Item]
  BY <1>2, <1>3
<1>5. Items(b, m + 1, n) \in Seq(Item)
  BY <1>1, <1>4, SeqDef
<1>6. Len(Items(b, m + 1, n)) = k
  <2>1. DOMAIN Items(b, m + 1, n) = 1 .. k
    BY <1>2
  <2> QED
    BY <1>1, <1>5, <2>1, LenProperties
<1>7. \A i \in 1 .. k : Items(b, m + 1, n)[i] = <<b, m + i>>
  BY <1>2
<1> QED
  BY <1>5, <1>6, <1>7 DEF k

\* A page that is asked for behind the end is empty.
LEMMA NoItems ==
  ASSUME NEW b, NEW n \in Nat, NEW m \in Nat, n <= m
  PROVE  Items(b, m + 1, n) = << >>
<1>1. 1 .. n - (m + 1) + 1 = {}
  OBVIOUS
<1> QED
  BY <1>1 DEF Items

\* The first items of a collection.
LEMMA FirstItems ==
  ASSUME NEW b \in Business, NEW n \in 0 .. MaxItem
  PROVE  /\ Items(b, 1, n) \in Seq(Item)
         /\ Len(Items(b, 1, n)) = n
         /\ \A i \in 1 .. n : Items(b, 1, n)[i] = <<b, i>>
<1>1. n \in Nat /\ 0 \in Nat /\ 0 <= n /\ n - 0 = n /\ 0 + 1 = 1 /\ \A i \in 1 .. n : 0 + i = i
  BY ArgumentsAreNumbers
<1>2. /\ Items(b, 0 + 1, n) \in Seq(Item)
      /\ Len(Items(b, 0 + 1, n)) = n - 0
      /\ \A i \in 1 .. n - 0 : Items(b, 0 + 1, n)[i] = <<b, 0 + i>>
  BY <1>1, ItemsProperties
<1> QED
  BY <1>1, <1>2

\* Pages that meet are one: no gap and no duplicate.
LEMMA ItemsMeet ==
  ASSUME NEW b \in Business, NEW n \in 0 .. MaxItem, NEW m \in Nat, m <= n
  PROVE  Items(b, 1, m) \o Items(b, m + 1, n) = Items(b, 1, n)
<1> DEFINE s == Items(b, 1, m)
           t == Items(b, m + 1, n)
           u == Items(b, 1, n)
<1>0. n \in Nat /\ m \in 0 .. MaxItem /\ n - m \in Nat
  BY ArgumentsAreNumbers
<1>1. s \in Seq(Item) /\ Len(s) = m /\ \A i \in 1 .. m : s[i] = <<b, i>>
  BY <1>0, FirstItems
<1>2. t \in Seq(Item) /\ Len(t) = n - m /\ \A i \in 1 .. n - m : t[i] = <<b, m + i>>
  BY ItemsProperties
<1>3. u \in Seq(Item) /\ Len(u) = n /\ \A i \in 1 .. n : u[i] = <<b, i>>
  BY FirstItems
<1> HIDE DEF s, t, u
<1>4. /\ s \o t \in Seq(Item)
      /\ Len(s \o t) = m + (n - m)
      /\ \A i \in 1 .. m + (n - m) : (s \o t)[i] = IF i <= m THEN s[i] ELSE t[i - m]
  <2>1. /\ s \o t \in Seq(Item)
        /\ Len(s \o t) = Len(s) + Len(t)
        /\ \A i \in 1 .. Len(s) + Len(t) : (s \o t)[i] = IF i <= Len(s) THEN s[i] ELSE t[i - Len(s)]
    BY <1>1, <1>2, ConcatProperties
  <2> QED
    BY <1>1, <1>2, <2>1
<1>5. m + (n - m) = n
  BY <1>0
<1>6. ASSUME NEW i \in 1 .. n PROVE (s \o t)[i] = u[i]
  <2>1. CASE i <= m
    <3>1. i \in 1 .. m
      BY <1>0, <2>1
    <3> QED
      BY <1>1, <1>3, <1>4, <1>5, <2>1, <3>1
  <2>2. CASE ~(i <= m)
    <3>1. i - m \in 1 .. n - m /\ m + (i - m) = i
      BY <1>0, <2>2
    <3>2. (s \o t)[i] = t[i - m]
      BY <1>4, <1>5, <2>2
    <3>3. t[i - m] = <<b, m + (i - m)>>
      BY <1>2, <3>1
    <3> QED
      BY <1>3, <3>1, <3>2, <3>3
  <2> QED
    BY <2>1, <2>2
<1>7. s \o t = u
  BY <1>3, <1>4, <1>5, <1>6, SeqEqual
<1> QED
  BY <1>7 DEF s, t, u

\* A prefix of the first items of a collection.
LEMMA PrefixOfItems ==
  ASSUME NEW b \in Business, NEW m \in 0 .. MaxItem, NEW n \in 0 .. m
  PROVE  SubSeq(Items(b, 1, m), 1, n) = Items(b, 1, n)
<1> DEFINE s == Items(b, 1, m)
           t == Items(b, 1, n)
<1>0. n \in 0 .. MaxItem /\ n \in Nat /\ \A i \in 1 .. n : i \in 1 .. m /\ i \in Int
  BY ArgumentsAreNumbers
<1>1. s \in Seq(Item) /\ Len(s) = m /\ \A i \in 1 .. m : s[i] = <<b, i>>
  BY FirstItems
<1>2. t \in Seq(Item) /\ Len(t) = n /\ \A i \in 1 .. n : t[i] = <<b, i>>
  BY <1>0, FirstItems
<1> HIDE DEF s, t
<1>3. \A i \in 1 .. n : s[i] \in Item
  BY <1>0, <1>1, ElementOfSeq
<1>4. /\ SubSeq(s, 1, n) \in Seq(Item)
      /\ Len(SubSeq(s, 1, n)) = IF 1 <= n THEN n - 1 + 1 ELSE 0
      /\ \A i \in 1 .. n - 1 + 1 : SubSeq(s, 1, n)[i] = s[1 + i - 1]
  BY <1>0, <1>3, SubSeqProperties
<1>5. /\ n - 1 + 1 = n /\ (IF 1 <= n THEN n - 1 + 1 ELSE 0) = n
      /\ \A i \in 1 .. n : 1 + i - 1 = i
  BY <1>0
<1>6. Len(SubSeq(s, 1, n)) = n /\ \A i \in 1 .. n : SubSeq(s, 1, n)[i] = t[i]
  BY <1>0, <1>1, <1>2, <1>4, <1>5
<1>7. SubSeq(s, 1, n) = t
  BY <1>2, <1>4, <1>6, SeqEqual
<1> QED
  BY <1>7 DEF s, t

\* min(max(top, 1), 400): a page has room for an item, so that skip moves on.
LEMMA PageSizeIsPositive == TypeOK => PageSize \in Nat \ {0}
  BY ArgumentsAreNumbers DEF TypeOK, PageSize, Lower

\* What one page holds: at most page_size items, and fewer only if the
\* collection ends with it.
LEMMA PageProperties ==
  ASSUME TypeOK, asked \in Business
  PROVE  /\ Page \in Seq(Item)
         /\ ~single => Page = Items(asked, skip + 1, Lower(skip + PageSize, remote[asked]))
         /\ (~single /\ skip <= remote[asked]) =>
               Len(Page) = Lower(skip + PageSize, remote[asked]) - skip
<1>1. /\ remote[asked] \in 0 .. MaxItem /\ PageSize \in Nat \ {0} /\ skip \in Nat
      /\ MaxItem \in Nat
  BY PageSizeIsPositive, ArgumentsAreNumbers DEF TypeOK
<1> DEFINE n == Lower(skip + PageSize, remote[asked])
<1>2. Lower(1, remote[asked]) \in 0 .. MaxItem /\ n \in 0 .. MaxItem
  BY <1>1 DEF Lower
<1>3. skip <= remote[asked] => skip <= n
  BY <1>1 DEF Lower
<1> HIDE DEF n
<1>4. CASE single
  BY <1>2, <1>4, FirstItems DEF Page
<1>5. CASE ~single
  <2>1. Page = Items(asked, skip + 1, n)
    BY <1>5 DEF Page, n
  <2>2. CASE skip <= n
    BY <1>1, <1>2, <1>5, <2>1, <2>2, ItemsProperties DEF n
  <2>3. CASE ~(skip <= n)
    <3>1. n \in Nat /\ n <= skip
      BY <1>1, <1>2, <2>3
    <3>2. Page = << >>
      BY <1>1, <2>1, <3>1, NoItems
    <3> QED
      BY <1>3, <1>5, <2>1, <2>3, <3>2, EmptySeq DEF n
  <2> QED
    BY <2>2, <2>3
<1> QED
  BY <1>4, <1>5

-----------------------------------------------------------------------------
(* The invariant is kept.                                                  *)

\* A page is asked of a business.
LEMMA SelectedIsABusiness == TypeOK => Selected \in Business
  BY DEF TypeOK, Selected

\* Every step keeps the ranges; while a page is awaited there is a business it
\* was asked of.
LEMMA TypeStep ==
  ASSUME PagingInv, [Next]_vars
  PROVE  TypeOK' /\ (pc' = "waiting" => asked' \in Business)
<1>1. TypeOK /\ (pc = "waiting" => asked \in Business)
  BY DEF PagingInv
<1>2. CASE RequestPage
  BY <1>1, <1>2, SelectedIsABusiness DEF RequestPage, arguments, TypeOK
<1>3. CASE PageArrives
  <2>1. Page \in Seq(Item) /\ asked \in Business
    BY <1>1, <1>3, PageProperties DEF PageArrives
  <2>2. all_items' \in Seq(Item)
    BY <1>1, <1>3, <2>1, ConcatProperties DEF PageArrives, TypeOK, Item
  <2>3. skip' \in Nat /\ pc' \in {"next", "returned"}
    BY <1>1, <1>3, PageSizeIsPositive DEF PageArrives, NextSkip, TypeOK
  <2> QED
    BY <1>1, <1>3, <2>2, <2>3 DEF PageArrives, arguments, TypeOK, Item
<1>4. CASE Enough \/ RequestRaises
  BY <1>1, <1>4 DEF Enough, RequestRaises, arguments, TypeOK
<1>5. ASSUME NEW b \in Business, Added(b) PROVE TypeOK' /\ (pc' = "waiting" => asked' \in Business)
  BY <1>1, <1>5, ArgumentsAreNumbers DEF Added, arguments, TypeOK
<1>6. ASSUME NEW b \in Business, BusinessSelected(b)
      PROVE  TypeOK' /\ (pc' = "waiting" => asked' \in Business)
  BY <1>1, <1>6 DEF BusinessSelected, arguments, TypeOK
<1>8. ASSUME NEW b \in Business, Shifted(b) PROVE TypeOK' /\ (pc' = "waiting" => asked' \in Business)
  <2>1. PICK length \in 0 .. MaxItem : remote' = [remote EXCEPT ![b] = length]
    BY <1>8 DEF Shifted
  <2>2. remote' \in [Business -> 0 .. MaxItem]
    BY <1>1, <2>1 DEF TypeOK
  <2>3. shifted' \in BOOLEAN
    BY <1>8 DEF Shifted
  <2> QED
    BY <1>1, <1>8, <2>2, <2>3 DEF Shifted, arguments, TypeOK
<1>7. CASE UNCHANGED vars
  BY <1>1, <1>7 DEF vars, TypeOK
<1> QED
  BY <1>2, <1>3, <1>4, <1>5, <1>6, <1>7, <1>8 DEF Next, paged

\* A page that arrives continues what was read before it.
LEMMA PageContinues ==
  ASSUME PagingInv, PageArrives, steady, ~shifted, ~single
  PROVE  /\ all_items' = Items(Selected, 1, Len(all_items'))
         /\ Len(all_items') <= remote[Selected]
         /\ pc' \in {"next", "returned"}
         /\ pc' = "next" => skip' = Len(all_items')
         /\ pc' = "returned" => Len(all_items') = remote[Selected]
<1> DEFINE m == Len(all_items)
           n == Lower(skip + PageSize, remote[Selected])
<1>1. /\ TypeOK /\ pc = "waiting" /\ asked = Selected /\ Selected \in Business
      /\ m <= remote[Selected] /\ skip = m /\ all_items = Items(Selected, 1, m)
  BY SelectedIsABusiness DEF PagingInv, SteadyInv, PageArrives
<1>2. m \in Nat /\ remote[Selected] \in 0 .. MaxItem /\ PageSize \in Nat \ {0} /\ MaxItem \in Nat
  BY <1>1, PageSizeIsPositive, LenProperties, ArgumentsAreNumbers DEF TypeOK
<1>3. Page = Items(Selected, m + 1, n) /\ Len(Page) = n - m
  BY <1>1, PageProperties
<1> HIDE DEF m
<1>4. n \in 0 .. MaxItem /\ n \in Nat /\ m <= n /\ n <= remote[Selected]
  BY <1>1, <1>2 DEF Lower
<1>5. n - m >= PageSize => n = m + PageSize
  BY <1>1, <1>2 DEF Lower
<1>6. ~(n - m >= PageSize) => n = remote[Selected]
  BY <1>1, <1>2 DEF Lower
<1> HIDE DEF n
<1>7. all_items' = Items(Selected, 1, n)
  <2>1. all_items' = all_items \o Page
    BY DEF PageArrives
  <2> QED
    BY <1>1, <1>2, <1>3, <1>4, <2>1, ItemsMeet
<1>8. Len(all_items') = n
  BY <1>1, <1>4, <1>7, FirstItems
<1>9. IF n - m >= PageSize THEN pc' = "next" /\ skip' = m + PageSize ELSE pc' = "returned"
  BY <1>1, <1>3 DEF PageArrives, GoesOn, NextSkip
<1> QED
  BY <1>4, <1>5, <1>6, <1>7, <1>8, <1>9

\* The loop, items that are added meanwhile and other calls keep what was read
\* a prefix, for as long as the call is steady and nothing shifts its items.
LEMMA SteadyStep == ASSUME PagingInv, [Next]_vars PROVE SteadyInv'
<1> SUFFICES ASSUME steady', ~shifted', ~single'
             PROVE  LET n == Len(all_items') IN
                    /\ before' <= (remote[Selected])'
                    /\ n <= (remote[Selected])'
                    /\ all_items' = Items(Selected', 1, n)
                    /\ pc' \in {"next", "waiting"} => skip' = n
                    /\ pc' = "waiting" => asked' = Selected'
                    /\ pc' = "returned" => n >= Lower(max_items', before')
  BY DEF SteadyInv, Items
<1>1. TypeOK /\ SteadyInv /\ Selected \in Business /\ Len(all_items) \in Nat
  BY SelectedIsABusiness, LenProperties DEF PagingInv, TypeOK
\* While the call is steady, its business stays the same.
<1>2. /\ steady /\ ~shifted /\ ~single /\ Selected' = Selected
      /\ UNCHANGED <<single, max_items, before>>
  BY <1>1 DEF Next, paged, RequestPage, PageArrives, Enough, RequestRaises, Added,
              Shifted, BusinessSelected, arguments, Selected, vars, TypeOK
<1>3. /\ before <= remote[Selected]
      /\ Len(all_items) <= remote[Selected]
      /\ all_items = Items(Selected, 1, Len(all_items))
      /\ pc \in {"next", "waiting"} => skip = Len(all_items)
      /\ pc = "waiting" => asked = Selected
      /\ pc = "returned" => Len(all_items) >= Lower(max_items, before)
  BY <1>1, <1>2 DEF SteadyInv
<1>4. CASE RequestPage
  BY <1>2, <1>3, <1>4 DEF RequestPage
<1>5. CASE PageArrives
  <2>1. UNCHANGED remote
    BY <1>5 DEF PageArrives
  <2>2. /\ all_items' = Items(Selected, 1, Len(all_items'))
        /\ Len(all_items') <= remote[Selected]
        /\ pc' \in {"next", "returned"}
        /\ pc' = "next" => skip' = Len(all_items')
        /\ pc' = "returned" => Len(all_items') = remote[Selected]
    BY <1>2, <1>5, PageContinues
  <2>3. remote[Selected] >= Lower(max_items, before)
    <3>1. remote[Selected] \in Int /\ max_items \in Int /\ before \in Int
      BY <1>1 DEF TypeOK
    <3> QED
      BY <1>3, <3>1 DEF Lower
  <2> QED
    BY <1>2, <1>3, <2>1, <2>2, <2>3
<1>6. CASE Enough
  <2>1. Len(all_items) >= Lower(max_items, before)
    BY <1>1, <1>6 DEF Enough, TypeOK, Lower
  <2> QED
    BY <1>2, <1>3, <1>6, <2>1 DEF Enough
<1>7. CASE RequestRaises
  BY <1>2, <1>3, <1>7 DEF RequestRaises
<1>8. ASSUME NEW b \in Business, Added(b) PROVE remote'[Selected] \in Int /\ remote[Selected] <= remote'[Selected]
  BY <1>1, <1>8 DEF Added, TypeOK
<1>9. CASE \E b \in Business : Added(b)
  <2>1. remote'[Selected] \in Int /\ remote[Selected] <= remote'[Selected]
    BY <1>8, <1>9
  <2>2. before <= remote'[Selected] /\ Len(all_items) <= remote'[Selected]
    BY <1>1, <1>3, <2>1 DEF TypeOK
  <2> QED
    BY <1>2, <1>3, <1>9, <2>2 DEF Added
<1>10. CASE \E b \in Business : BusinessSelected(b)
  BY <1>2, <1>3, <1>10 DEF BusinessSelected
<1>11. CASE UNCHANGED vars
  BY <1>2, <1>3, <1>11 DEF vars
\* What shifts another collection leaves this one alone.
<1>12. CASE \E b \in Business : Shifted(b)
  <2>1. PICK b \in Business : Shifted(b)
    BY <1>12
  <2>2. b # Selected
    BY <2>1 DEF Shifted
  <2>3. PICK length : remote' = [remote EXCEPT ![b] = length]
    BY <2>1 DEF Shifted
  <2>4. remote'[Selected] = remote[Selected]
    BY <1>1, <2>2, <2>3 DEF TypeOK
  <2> QED
    BY <1>2, <1>3, <2>1, <2>4 DEF Shifted
<1> QED
  BY <1>4, <1>5, <1>6, <1>7, <1>9, <1>10, <1>11, <1>12 DEF Next, paged

\* Between any two pages skip is the number of items read, and these are the
\* first ones of the collection.
THEOREM PagingInvariant == Spec => []PagingInv
<1>1. Init => PagingInv
  <2> SUFFICES ASSUME Init PROVE PagingInv
    OBVIOUS
  <2>1. remote \in [Business -> 0 .. MaxItem] /\ Selected \in Business /\ before = remote[Selected]
    BY ArgumentsAreNumbers DEF Init, Selected
  <2>2. << >> \in Seq(Item) /\ Len(<< >>) = 0
    BY EmptySeq
  <2>3. Items(Selected, 1, 0) = << >>
    BY NoItems
  <2>4. TypeOK
    <3>1. top \in Int /\ max_items \in Int /\ before \in Nat
      BY <2>1, ArgumentsAreNumbers DEF Init
    <3>2. all_items \in Seq(Business \X (1 .. MaxItem)) /\ skip \in Nat
      BY <2>2 DEF Init, Item
    <3>3. shifted \in BOOLEAN /\ steady \in BOOLEAN /\ single \in BOOLEAN
      BY DEF Init
    <3> QED
      BY <2>1, <3>1, <3>2, <3>3 DEF Init, TypeOK
  <2>5. SteadyInv
    BY <2>1, <2>2, <2>3, <2>4 DEF Init, SteadyInv, TypeOK
  <2> QED
    BY <2>4, <2>5 DEF Init, PagingInv
<1>2. PagingInv /\ [Next]_vars => PagingInv'
  <2> SUFFICES ASSUME PagingInv, [Next]_vars PROVE PagingInv'
    OBVIOUS
  <2>1. TypeOK' /\ (pc' = "waiting" => asked' \in Business)
    BY TypeStep
  <2>2. SteadyInv'
    BY SteadyStep
  <2> QED
    BY <2>1, <2>2 DEF PagingInv
<1> QED
  BY <1>1, <1>2, PTL DEF Spec

-----------------------------------------------------------------------------
(* What follows from it.                                                   *)

\* Every variable stays in its range, and every item read is an item of a
\* collection (TypeOK).
THEOREM TypeCorrect == Spec => []TypeOK
<1>1. PagingInv => TypeOK
  BY DEF PagingInv
<1> QED
  BY <1>1, PagingInvariant, PTL

\* A collection that only grew, behind the place reached, while one business was
\* read is returned from its start, without gap or duplicate, and with all that it held when the call
\* started, for every top and max_items (PrefixIfSteady).
THEOREM PagesMakeAPrefix == Spec => []PrefixIfSteady
<1>1. PagingInv => PrefixIfSteady
  <2> SUFFICES ASSUME PagingInv, pc = "returned", steady, ~shifted, ~single
               PROVE  \E n \in 0 .. remote[Selected] :
                        /\ Result = Items(Selected, 1, n)
                        /\ n >= Lower(max_items, before)
                        /\ n <= max_items \/ n = 0
    BY DEF PrefixIfSteady
  <2> DEFINE m == Len(all_items)
             last == Lower(max_items, m)
  <2>1. /\ Selected \in Business /\ m \in Nat /\ max_items \in Int /\ before \in Nat
        /\ remote[Selected] \in 0 .. MaxItem
    BY SelectedIsABusiness, LenProperties DEF PagingInv, TypeOK
  <2>2. /\ m <= remote[Selected]
        /\ all_items = Items(Selected, 1, m)
        /\ m >= Lower(max_items, before)
    BY DEF PagingInv, SteadyInv
  <2>3. m \in 0 .. MaxItem /\ Result = SubSeq(all_items, 1, last)
    BY <2>1, <2>2, ArgumentsAreNumbers DEF Result
  <2> HIDE DEF m
  <2>4. last \in Int /\ last <= m /\ last <= max_items /\ last \in {max_items, m}
    BY <2>1 DEF Lower
  <2>5. last >= Lower(max_items, before)
    BY <2>1, <2>2 DEF Lower
  <2> HIDE DEF last
  <2>6. CASE last >= 0
    <3>1. last \in 0 .. m /\ last \in 0 .. remote[Selected]
      BY <2>1, <2>2, <2>4, <2>6
    <3>2. Result = Items(Selected, 1, last)
      BY <2>1, <2>2, <2>3, <3>1, PrefixOfItems
    <3> QED
      BY <2>4, <2>5, <3>1, <3>2
  <2>7. CASE last < 0
    <3>1. Result = << >>
      BY <2>3, <2>4, <2>7, SubSeqEmpty
    <3>2. Items(Selected, 1, 0) = << >>
      BY NoItems
    <3>3. 0 \in 0 .. remote[Selected] /\ 0 >= Lower(max_items, before)
      BY <2>1, <2>5, <2>4, <2>7 DEF Lower
    <3> QED
      BY <3>1, <3>2, <3>3
  <2> QED
    BY <2>4, <2>6, <2>7
<1> QED
  BY <1>1, PagingInvariant, PTL

\* A call that names its business cannot be moved to another one, so that what
\* it returns is a prefix whatever other calls select meanwhile (client.py:174),
\* if nothing shifts its items.
NamedIsPrefix ==
    (pc = "returned" /\ named # None /\ ~shifted /\ ~single)
        => \E n \in 0 .. remote[named] :
              Result = Items(named, 1, n) /\ n >= Lower(max_items, before)

THEOREM NamedMakesAPrefix == Spec => []NamedIsPrefix
<1> DEFINE Named == named # None => steady
<1>1. Init => Named
  BY DEF Init
<1>2. Named /\ [Next]_vars => Named'
  BY DEF Next, paged, RequestPage, PageArrives, Enough, RequestRaises, Added,
         Shifted, BusinessSelected, arguments, vars
<1>3. Named /\ PrefixIfSteady => NamedIsPrefix
  BY DEF PrefixIfSteady, NamedIsPrefix, Selected
<1> QED
  BY <1>1, <1>2, <1>3, PagesMakeAPrefix, PTL DEF Spec

-----------------------------------------------------------------------------
(* How long the loop can go on.                                            *)

\* How many items the call may still take.
Wanted == IF Len(all_items) < max_items THEN max_items - Len(all_items) ELSE 0

\* What is left of an iteration: the test with the request, and the page.
LeftOfIteration == IF pc = "next" THEN 2 ELSE IF pc = "waiting" THEN 1 ELSE 0

\* A bound on the steps that the loop can still make.
LoopLeft == 2 * Wanted + LeftOfIteration

LoopBounded ==
    LoopLeft \in Nat /\ (LoopLeft <= 2 \/ LoopLeft <= 2 * max_items + 2)

\* A step of the loop uses up some of the bound, and nothing gives it back:
\* neither items that come and go, nor another business that is selected.
LoopRunsDown ==
    /\ paged => LoopLeft' < LoopLeft
    /\ LoopLeft' <= LoopLeft

\* A page is only asked for if an item is wanted.
WaitingInv == pc = "waiting" => Len(all_items) < max_items

\* The bound drops when an item is taken, or a part of an iteration used up.
LEMMA LoopArithmetic ==
  ASSUME NEW w \in Nat, NEW x \in 0 .. 2, NEW v \in Nat, NEW y \in 0 .. 2
  PROVE  /\ 2 * w + x \in Nat
         /\ \A n \in Int : w = 0 \/ w <= n => 2 * w + x <= 2 \/ 2 * w + x <= 2 * n + 2
         /\ (v <= w /\ y < x) \/ (v < w /\ y = 2 /\ x = 1) => 2 * v + y < 2 * w + x
  OBVIOUS

\* No page takes items away.
LEMMA NoItemIsLost ==
  ASSUME PagingInv, PageArrives
  PROVE  /\ Len(Page) \in Nat /\ Len(all_items) \in Nat
         /\ Len(all_items') = Len(all_items) + Len(Page)
         /\ Len(all_items') >= Len(all_items)
<1>1. TypeOK /\ asked \in Business
  BY DEF PagingInv, PageArrives
<1>2. Page \in Seq(Item) /\ all_items \in Seq(Item)
  BY <1>1, PageProperties DEF TypeOK, Item
<1>3. Len(Page) \in Nat /\ Len(all_items) \in Nat
  BY <1>2, LenProperties
<1>4. Len(all_items') = Len(all_items) + Len(Page)
  BY <1>2, ConcatProperties DEF PageArrives
<1> QED
  BY <1>3, <1>4

\* A page on which the loop goes on has at least one.
LEMMA FullPageHasItems ==
  ASSUME PagingInv, PageArrives, GoesOn(Page)
  PROVE  Len(all_items') > Len(all_items)
<1>1. PageSize \in Nat \ {0}
  BY PageSizeIsPositive DEF PagingInv
<1>2. Len(Page) >= PageSize
  BY DEF GoesOn
<1> QED
  BY <1>1, <1>2, NoItemIsLost

\* A list tool reads its collection in at most 2 * max_items + 2 steps, even if
\* items come and go as fast as they are read or every page has the same object:
\* a page that does not end the loop brings it closer to max_items (167-187).
THEOREM LoopRunsOut == Spec => []LoopBounded /\ [][LoopRunsDown]_vars
<1>1. Init => WaitingInv
  BY DEF Init, WaitingInv
<1>2. PagingInv /\ WaitingInv /\ [Next]_vars => WaitingInv'
  BY DEF WaitingInv, Next, paged, RequestPage, PageArrives, Enough, RequestRaises, Added,
         Shifted, BusinessSelected, arguments, vars
<1>3. PagingInv => LoopBounded
  <2> SUFFICES ASSUME PagingInv PROVE LoopBounded
    OBVIOUS
  <2>1. Len(all_items) \in Nat /\ max_items \in Int
    BY LenProperties DEF PagingInv, TypeOK
  <2>2. Wanted \in Nat /\ (Wanted = 0 \/ Wanted <= max_items)
    BY <2>1 DEF Wanted
  <2>3. LeftOfIteration \in 0 .. 2
    BY DEF LeftOfIteration
  <2> QED
    BY <2>1, <2>2, <2>3, LoopArithmetic DEF LoopBounded, LoopLeft
<1>4. PagingInv /\ PagingInv' /\ WaitingInv /\ [Next]_vars => [LoopRunsDown]_vars
  <2> SUFFICES ASSUME PagingInv, PagingInv', WaitingInv, Next PROVE LoopRunsDown
    OBVIOUS
  <2>1. /\ Len(all_items) \in Nat /\ Len(all_items') \in Nat
        /\ max_items \in Int /\ max_items' = max_items
    <3>1. max_items' = max_items
      BY DEF Next, paged, RequestPage, PageArrives, Enough, RequestRaises, Added,
             Shifted, BusinessSelected, arguments
    <3> QED
      BY <3>1, LenProperties DEF PagingInv, TypeOK
  <2>2. Wanted \in Nat /\ Wanted' \in Nat
    BY <2>1 DEF Wanted
  <2>3. LeftOfIteration \in 0 .. 2 /\ LeftOfIteration' \in 0 .. 2
    BY DEF LeftOfIteration
  <2>4. LoopLeft \in Nat /\ LoopLeft' \in Nat
    BY <2>2, <2>3, LoopArithmetic DEF LoopLeft
  <2>5. ASSUME \/ Wanted' <= Wanted /\ LeftOfIteration' < LeftOfIteration
               \/ Wanted' < Wanted /\ LeftOfIteration' = 2 /\ LeftOfIteration = 1
        PROVE  LoopLeft' < LoopLeft
    BY <2>2, <2>3, <2>5, LoopArithmetic DEF LoopLeft
  <2>6. ASSUME paged PROVE LoopLeft' < LoopLeft
    <3>1. CASE RequestPage \/ Enough \/ RequestRaises
      <4>1. Wanted' = Wanted
        BY <2>1, <3>1 DEF RequestPage, Enough, RequestRaises, Wanted
      <4>2. LeftOfIteration' < LeftOfIteration
        BY <3>1 DEF RequestPage, Enough, RequestRaises, LeftOfIteration
      <4> QED
        BY <2>2, <2>5, <4>1, <4>2
    <3>2. CASE PageArrives /\ GoesOn(Page)
      <4>1. Len(all_items') > Len(all_items) /\ Len(all_items) < max_items
        BY <3>2, FullPageHasItems DEF PageArrives, WaitingInv
      <4>2. Wanted' < Wanted
        BY <2>1, <4>1 DEF Wanted
      <4>3. LeftOfIteration' = 2 /\ LeftOfIteration = 1
        BY <3>2 DEF PageArrives, LeftOfIteration
      <4> QED
        BY <2>5, <4>2, <4>3
    <3>3. CASE PageArrives /\ ~GoesOn(Page)
      <4>1. Len(all_items') >= Len(all_items)
        BY <3>3, NoItemIsLost
      <4>2. Wanted' <= Wanted
        BY <2>1, <4>1 DEF Wanted
      <4>3. LeftOfIteration' < LeftOfIteration
        BY <3>3 DEF PageArrives, LeftOfIteration
      <4> QED
        BY <2>5, <4>2, <4>3
    <3> QED
      BY <2>6, <3>1, <3>2, <3>3 DEF paged
  <2>7. CASE \E b \in Business : Added(b) \/ Shifted(b) \/ BusinessSelected(b)
    <3>1. UNCHANGED <<pc, all_items, max_items>>
      BY <2>7 DEF Added, Shifted, BusinessSelected, arguments
    <3>2. LoopLeft' = LoopLeft
      BY <3>1 DEF LoopLeft, LeftOfIteration, Wanted
    <3>3. ~paged
      BY <2>7 DEF paged, RequestPage, PageArrives, Enough, RequestRaises, Added,
         Shifted, BusinessSelected, arguments
    <3> QED
      BY <2>4, <3>2, <3>3 DEF LoopRunsDown
  <2>8. CASE paged
    BY <2>4, <2>6, <2>8 DEF LoopRunsDown
  <2> QED
    BY <2>7, <2>8 DEF Next
<1> QED
  BY <1>1, <1>2, <1>3, <1>4, PagingInvariant, PTL DEF Spec

=============================================================================

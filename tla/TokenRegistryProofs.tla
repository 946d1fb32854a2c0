------------------------- MODULE TokenRegistryProofs -------------------------
(***************************************************************************)
(* Proofs about TokenRegistry for every set of businesses and of calls.    *)
(***************************************************************************)
EXTENDS TokenRegistry, FiniteSetTheorems, WellFoundedInduction, TLAPS

\* The registry and the two fields of MyobOAuth: whatever the fields name is
\* authorised unless memory strayed from the registry, and tokens in memory name
\* a business in any case, so that a refresh that falls back on them has one to
\* store its tokens under.
StoreInv ==
    /\ stored \in [Business -> Business \cup {None}]
    /\ default \in Business \cup {None}
    /\ memory \in Tokens \cup {NoTokens}
    /\ active \in Business \cup {None}
    /\ strayed \in BOOLEAN
    /\ DefaultAuthorised
    /\ ~strayed /\ active # None => active \in Authorised
    /\ ~strayed /\ memory # NoTokens => memory.business_id \in Authorised

\* A call that awaits the network has a business and a token.
CallsInv ==
    /\ pc \in [Call -> Place]
    /\ job \in [Call -> Job]
    /\ \A c \in Call : pc[c] # "idle" => job[c].business \in Business /\ job[c].owner \in Business

\* For a careful user every token set, stored, in memory or in the hands of a
\* call, is labelled with its owner, and a call uses or refreshes the tokens of
\* a business that is still authorised.
OwnersInv ==
    careful =>
        /\ StoredForOwner
        /\ memory # NoTokens => memory.owner = memory.business_id
        /\ \A c \in Call :
              /\ pc[c] # "idle" => job[c].owner = job[c].business
              /\ pc[c] \notin {"idle", "exchanging"} => job[c].business \in Authorised
        /\ forgotten \cap Authorised = {}

RegistryInv ==
    StoreInv /\ CallsInv /\ OwnersInv /\ forgotten \subseteq Business /\ careful \in BOOLEAN

-----------------------------------------------------------------------------
(* The registry file.                                                      *)

SmallerNumber == {p \in Nat \X Nat : p[1] < p[2]}

\* The order of numbers is well-founded.
LEMMA NumbersWellFounded == IsWellFoundedOn(SmallerNumber, Nat)
BY NatLessThanWellFounded DEF OpToRel, SmallerNumber

\* sorted(businesses)[0], the next default business, is one of the businesses.
LEMMA LeastIsOne ==
    ASSUME NEW S, S \subseteq Business, S # {}
    PROVE  Least(S) \in S
<1>1. S \subseteq Nat
  BY BusinessesAreNumbers
<1>2. PICK b \in S : \A d \in S : <<d, b>> \notin SmallerNumber
  BY <1>1, NumbersWellFounded, WFMin
<1>3. ASSUME NEW d \in S PROVE b <= d
  <2>1. ~(d < b)
    BY <1>1, <1>2 DEF SmallerNumber
  <2> QED
    BY <1>1, <2>1
<1> QED
  BY <1>3 DEF Least

\* load_business_tokens returns the stored tokens of an authorised business, of
\* the one that was asked for if one was, or none.
LEMMA Loaded ==
    ASSUME stored \in [Business -> Business \cup {None}],
           default \in Business \cup {None},
           NEW b \in Business \cup {None}
    PROVE  \/ /\ load_business_tokens(b) = NoTokens
              /\ b \notin Authorised
           \/ \E a \in Authorised :
                /\ load_business_tokens(b) = Labelled(a)
                /\ b # None => a = b
<1>1. None \notin Business
  BY BusinessesAreNumbers DEF None
<1>2. CASE b # None
  BY <1>2 DEF load_business_tokens
<1>3. CASE b = None /\ default \in Authorised
  BY <1>3 DEF load_business_tokens
<1>4. CASE b = None /\ default \notin Authorised /\ Cardinality(Authorised) = 1
  <2>1. Authorised # {}
    BY <1>4, FS_EmptySet
  <2>2. Least(Authorised) \in Authorised
    BY <2>1, LeastIsOne DEF Authorised
  <2> QED
    BY <1>4, <2>2 DEF load_business_tokens
<1>5. CASE b = None /\ default \notin Authorised /\ Cardinality(Authorised) # 1
  BY <1>1, <1>5 DEF load_business_tokens, Authorised
<1> QED
  BY <1>2, <1>3, <1>4, <1>5

\* What a record of tokens tells: it is labelled, and is not the empty record.
LEMMA LabelledIsTokens ==
    ASSUME stored \in [Business -> Business \cup {None}], NEW a \in Authorised
    PROVE  /\ Labelled(a) \in Tokens
           /\ Labelled(a) # NoTokens
           /\ Labelled(a).business_id = a
           /\ Labelled(a).owner = stored[a]
<1>1. a \in Business /\ stored[a] \in Business
  BY DEF Authorised
<1>2. a # None
  BY <1>1, BusinessesAreNumbers DEF None
<1> QED
  BY <1>1, <1>2 DEF Labelled, Tokens, NoTokens

\* Saving tokens keeps the registry and memory consistent, whatever business
\* they are for, and authorises that business and no other; it may be that
\* nothing is written.
LEMMA Saved ==
    ASSUME StoreInv, NEW b \in Business, NEW owner \in Business,
           NEW make_default \in BOOLEAN, NEW written \in BOOLEAN,
           Save(b, owner, make_default, written)
    PROVE  StoreInv' /\ Authorised' = IF written THEN Authorised \cup {b} ELSE Authorised
<1>1. b # None /\ owner # None /\ None \notin Business
  BY BusinessesAreNumbers DEF None
<1>2. memory' \in Tokens /\ memory'.business_id = b /\ active' = b /\ strayed' = ~written
  BY DEF Save, Tokens
<1>3. CASE written
  <2>1. Authorised' = Authorised \cup {b}
    BY <1>1, <1>3 DEF Save, StoreInv, Authorised
  <2>2. /\ stored' \in [Business -> Business \cup {None}]
        /\ default' \in Business \cup {None}
    BY <1>3 DEF Save, StoreInv
  <2>3. DefaultAuthorised'
    BY <1>1, <1>3, <2>1 DEF Save, StoreInv, DefaultAuthorised
  <2> QED
    BY <1>2, <1>3, <2>1, <2>2, <2>3 DEF StoreInv
<1>4. CASE ~written
  <2>1. UNCHANGED <<stored, default>>
    BY <1>4 DEF Save
  <2>2. Authorised' = Authorised
    BY <2>1 DEF Authorised
  <2> QED
    BY <1>2, <1>4, <2>1, <2>2 DEF StoreInv, DefaultAuthorised
<1> QED
  BY <1>3, <1>4

\* A call that starts to await has a business and a token.
LEMMA Awaiting ==
    ASSUME CallsInv, NEW c \in Call, NEW place \in Place,
           NEW b \in Business, NEW owner \in Business, Await(c, place, b, owner)
    PROVE  CallsInv'
BY DEF CallsInv, Await, Job

\* A call that ends leaves the others as they are.
LEMMA Ending ==
    ASSUME CallsInv, NEW c \in Call, Ends(c)
    PROVE  CallsInv'
BY DEF CallsInv, Ends, Job, NoJob, Place

\* refresh_access_token takes the tokens stored for the business it was asked
\* for, or those used last; either way it has a business to store the new ones.
LEMMA RefreshStarts ==
    ASSUME StoreInv, NEW c \in Call, NEW b \in Business \cup {None}, NEW place \in Place,
           RefreshBegins(c, b, place)
    PROVE  \E x \in Business, owner \in Business :
              /\ Await(c, place, x, owner)
              /\ b # None => x = b
              /\ \/ x \in Authorised /\ owner = stored[x]
                 \/ /\ b \notin Authorised
                    /\ load_business_tokens(b) = NoTokens
                    /\ memory # NoTokens
                    /\ owner = memory.owner
                    /\ b = None => x = memory.business_id
<1> DEFINE tokens == ToRefresh(b)
           x == IF b # None THEN b ELSE tokens.business_id
<1>1. tokens # NoTokens /\ Await(c, place, x, tokens.owner)
  BY DEF RefreshBegins
<1>2. CASE \E a \in Authorised : load_business_tokens(b) = Labelled(a) /\ (b # None => a = b)
  <2>1. PICK a \in Authorised : load_business_tokens(b) = Labelled(a) /\ (b # None => a = b)
    BY <1>2
  <2>2. /\ Labelled(a) # NoTokens
        /\ Labelled(a).business_id = a
        /\ Labelled(a).owner = stored[a]
    BY LabelledIsTokens DEF StoreInv
  <2>3. tokens = Labelled(a)
    BY <2>1, <2>2 DEF ToRefresh
  <2>4. x = a /\ tokens.owner = stored[a]
    BY <2>1, <2>2, <2>3
  <2>5. a \in Business /\ stored[a] \in Business
    BY DEF Authorised, StoreInv
  <2> QED
    BY <1>1, <2>1, <2>4, <2>5
<1>3. CASE load_business_tokens(b) = NoTokens /\ b \notin Authorised
  <2>1. tokens = memory
    BY <1>3 DEF ToRefresh
  <2>2. memory # NoTokens /\ memory.business_id \in Business /\ memory.owner \in Business
    BY <1>1, <2>1 DEF StoreInv, Tokens
  <2> QED
    BY <1>1, <1>3, <2>1, <2>2
<1> QED
  BY <1>2, <1>3, Loaded DEF StoreInv

-----------------------------------------------------------------------------
(* The steps.                                                              *)

\* Whatever is loaded next can be kept in memory: its business is authorised.
LEMMA Remembered ==
    ASSUME stored \in [Business -> Business \cup {None}],
           default \in Business \cup {None}
    PROVE  LET tokens == load_business_tokens(None)
           IN  /\ tokens \in Tokens \cup {NoTokens}
               /\ tokens.business_id \in Authorised \cup {None}
               /\ tokens # NoTokens => tokens.business_id \in Authorised
               /\ tokens # NoTokens => tokens.owner = stored[tokens.business_id]
<1>1. CASE load_business_tokens(None) = NoTokens
  BY <1>1 DEF NoTokens
<1>2. CASE \E a \in Authorised : load_business_tokens(None) = Labelled(a)
  BY <1>2, LabelledIsTokens
<1> QED
  BY <1>1, <1>2, Loaded

\* Removing a business leaves a registry with a default business that is
\* authorised, if any business is left.
LEMMA Removed ==
    ASSUME StoreInv, NEW b \in Business, NEW loaded \in BOOLEAN, Remove(b, loaded)
    PROVE  StoreInv' /\ Authorised' = Authorised \ {b}
<1>1. Authorised' = Authorised \ {b} /\ stored' \in [Business -> Business \cup {None}]
  BY DEF Remove, StoreInv, Authorised
<1>2. default' \in Business \cup {None} /\ DefaultAuthorised'
  <2> DEFINE left == Authorised \ {b}
  <2>1. left # {} => Least(left) \in left
    BY LeastIsOne DEF Authorised
  <2>2. left = {} => Least(left) = None
    BY DEF Least
  <2>3. None \notin Business /\ left \subseteq Business
    BY BusinessesAreNumbers DEF None, Authorised
  <2>4. default' = IF default = b THEN Least(left) ELSE default
    BY DEF Remove, NextDefault
  <2>5. IF Authorised = {} THEN default = None ELSE default \in Authorised
    BY DEF StoreInv, DefaultAuthorised
  <2> HIDE DEF left
  <2>6. IF left = {} THEN default' = None ELSE default' \in left
    BY <2>1, <2>2, <2>3, <2>4, <2>5 DEF left
  <2> QED
    BY <1>1, <2>3, <2>6 DEF DefaultAuthorised, left
<1>3. LET tokens == load_business_tokens(None)
      IN  ( /\ tokens \in Tokens \cup {NoTokens}
            /\ tokens.business_id \in Authorised \cup {None}
            /\ tokens # NoTokens => tokens.business_id \in Authorised )'
  <2>1. ( stored \in [Business -> Business \cup {None}] /\ default \in Business \cup {None} )'
    BY <1>1, <1>2
  <2> QED
    BY <2>1, Remembered, PTL
<1>4. CASE loaded
  <2>1. /\ memory' = load_business_tokens(None)'
        /\ active' = load_business_tokens(None)'.business_id
        /\ strayed' = FALSE
    BY <1>4 DEF Remove, ActiveAfterRemove
  <2> QED
    BY <1>1, <1>2, <1>3, <2>1 DEF StoreInv, Authorised
<1>5. CASE ~loaded
  <2>1. UNCHANGED <<memory, active>> /\ strayed' = TRUE
    BY <1>5 DEF Remove
  <2> QED
    BY <1>1, <1>2, <2>1 DEF StoreInv
<1> QED
  BY <1>4, <1>5

\* A request is made for one business that is authorised, the one named if one
\* was, with the tokens stored for it.
LEMMA Chosen ==
    ASSUME StoreInv, NEW c \in Call, NEW b \in Business \cup {None}, RequestBegins(c, b)
    PROVE  Selected(b) \in Authorised /\ TokensFor(Selected(b)) = Labelled(Selected(b))
<1> DEFINE selected == Selected(b)
<1>1. selected # None /\ load_business_tokens(selected) # NoTokens
  BY DEF RequestBegins, TokensFor
<1>2. selected \in Business
  <2>1. memory.business_id \in Business \cup {None}
    BY DEF StoreInv, Tokens, NoTokens
  <2>2. business_id \in Business \cup {None}
    BY <2>1 DEF business_id, StoreInv
  <2> QED
    BY <1>1, <2>2, BusinessesAreNumbers DEF Selected
<1>3. \A x \in Business : load_business_tokens(x) # NoTokens =>
        x \in Authorised /\ load_business_tokens(x) = Labelled(x)
  BY Loaded, BusinessesAreNumbers DEF StoreInv, None
<1> HIDE DEF selected
<1>4. selected \in Authorised /\ load_business_tokens(selected) = Labelled(selected)
  BY <1>1, <1>2, <1>3
<1> QED
  BY <1>4 DEF selected, TokensFor

\* Every step keeps the registry, memory and the calls consistent.
LEMMA StoreAndCalls ==
    ASSUME StoreInv, CallsInv, forgotten \subseteq Business, careful \in BOOLEAN, [Next]_vars
    PROVE  StoreInv' /\ CallsInv' /\ forgotten' \subseteq Business /\ careful' \in BOOLEAN
<1> USE DEF Place
<1> DEFINE Same == UNCHANGED <<stored, default, memory, active, strayed>>
<1>1. Same => StoreInv'
  BY DEF StoreInv, DefaultAuthorised, Authorised
<1>2. UNCHANGED <<pc, job>> => CallsInv'
  BY DEF CallsInv
<1>15. UNCHANGED careful
  BY DEF Next, vars
<1>3. ASSUME NEW c \in Call, NEW r \in Redirect, ExchangeBegins(c, r)
      PROVE  StoreInv' /\ CallsInv' /\ forgotten' \subseteq Business
  <2>1. r.business_id \in Business /\ r.owner \in Business
    BY RedirectsAreLabelled DEF Tokens
  <2> QED
    BY <1>1, <1>3, <2>1, Awaiting DEF ExchangeBegins
<1>4. ASSUME NEW c \in Call, NEW written \in BOOLEAN, ExchangeDone(c, written)
      PROVE  StoreInv' /\ CallsInv' /\ forgotten' \subseteq Business
  <2>1. job[c].business \in Business /\ job[c].owner \in Business
    BY <1>4 DEF ExchangeDone, CallsInv
  <2> QED
    BY <1>4, <2>1, Saved, Ending DEF ExchangeDone
<1>5. ASSUME NEW c \in Call, NEW b \in Business \cup {None}, RequestBegins(c, b)
      PROVE  StoreInv' /\ CallsInv' /\ forgotten' \subseteq Business
  <2> DEFINE selected == Selected(b)
             tokens == TokensFor(selected)
  <2>1. /\ selected # None /\ tokens # NoTokens
        /\ UNCHANGED <<stored, default, forgotten>>
        /\ \/ /\ Await(c, "requesting", selected, tokens.owner)
              /\ memory' = tokens
              /\ active' = selected
              /\ strayed' = FALSE
           \/ /\ RefreshBegins(c, selected, "refreshing to request")
              /\ UNCHANGED <<memory, active, strayed>>
    BY <1>5 DEF RequestBegins
  <2>2. selected \in Business
    BY <1>5, Chosen DEF Authorised
  <2>3. selected \in Authorised /\ tokens = Labelled(selected)
    BY <1>5, Chosen
  <2>4. /\ tokens \in Tokens
        /\ tokens.business_id = selected
        /\ tokens.owner = stored[selected] /\ stored[selected] \in Business
    BY <2>3, LabelledIsTokens DEF StoreInv, Authorised
  <2> HIDE DEF selected, tokens
  <2>5. CASE /\ Await(c, "requesting", selected, tokens.owner)
             /\ memory' = tokens /\ active' = selected /\ strayed' = FALSE
    <3>1. CallsInv'
      BY <2>2, <2>4, <2>5, Awaiting
    <3>2. StoreInv'
      BY <2>1, <2>2, <2>3, <2>4, <2>5 DEF StoreInv, DefaultAuthorised, Authorised
    <3> QED
      BY <2>1, <3>1, <3>2
  <2>6. CASE /\ RefreshBegins(c, selected, "refreshing to request")
             /\ UNCHANGED <<memory, active, strayed>>
    BY <1>1, <2>1, <2>2, <2>6, RefreshStarts, Awaiting
  <2> QED
    BY <2>1, <2>5, <2>6
<1>6. ASSUME NEW c \in Call, RequestUnauthorised(c)
      PROVE  StoreInv' /\ CallsInv' /\ forgotten' \subseteq Business
  <2>1. job[c].business \in Business
    BY <1>6 DEF RequestUnauthorised, CallsInv
  <2> QED
    BY <1>1, <1>6, <2>1, RefreshStarts, Awaiting DEF RequestUnauthorised
<1>7. ASSUME NEW c \in Call, NEW b \in Business \cup {None}, RefreshToolBegins(c, b)
      PROVE  StoreInv' /\ CallsInv' /\ forgotten' \subseteq Business
  BY <1>1, <1>7, RefreshStarts, Awaiting DEF RefreshToolBegins
<1>8. ASSUME NEW c \in Call, NEW written \in BOOLEAN, RefreshDone(c, written)
      PROVE  StoreInv' /\ CallsInv' /\ forgotten' \subseteq Business
  <2>1. job[c].business \in Business /\ job[c].owner \in Business
    BY <1>8 DEF RefreshDone, CallsInv
  <2>2. StoreInv' /\ UNCHANGED forgotten
    BY <1>8, <2>1, Saved DEF RefreshDone
  <2>3. CallsInv'
    BY <1>8, <2>1, Awaiting, Ending DEF RefreshDone
  <2> QED
    BY <2>2, <2>3
<1>9. ASSUME NEW c \in Call, CallEnds(c)
      PROVE  StoreInv' /\ CallsInv' /\ forgotten' \subseteq Business
  BY <1>1, <1>9, Ending DEF CallEnds
<1>10. ASSUME NEW b \in Business, NEW loaded \in BOOLEAN, SetDefault(b, loaded)
       PROVE  StoreInv' /\ CallsInv' /\ forgotten' \subseteq Business
  <2>1. Labelled(b) \in Tokens /\ Labelled(b).business_id = b
    BY <1>10, LabelledIsTokens DEF SetDefault, StoreInv
  <2> QED
    BY <1>2, <1>10, <2>1 DEF SetDefault, StoreInv, DefaultAuthorised, Authorised
<1>11. ASSUME NEW b \in Business, NEW loaded \in BOOLEAN, Remove(b, loaded)
       PROVE  StoreInv' /\ CallsInv' /\ forgotten' \subseteq Business
  <2>1. StoreInv'
    BY <1>11, Removed
  <2> QED
    BY <1>2, <1>11, <2>1 DEF Remove
<1>12. ASSUME NEW cleared \in BOOLEAN, Logout(cleared)
       PROVE  StoreInv' /\ CallsInv' /\ forgotten' \subseteq Business
  <2>1. CASE cleared
    <3>1. Authorised' = {}
      BY <1>12, <2>1 DEF Logout, Cleared, Authorised
    <3> QED
      BY <1>2, <1>12, <2>1, <3>1 DEF Logout, Cleared, StoreInv, DefaultAuthorised
  <2>2. CASE ~cleared
    BY <1>2, <1>12, <2>2 DEF Logout, StoreInv, DefaultAuthorised, Authorised
  <2> QED
    BY <2>1, <2>2
<1>13. CASE Restart
  <2>1. CallsInv'
    BY <1>13 DEF Restart, CallsInv, Job, NoJob
  <2>2. StoreInv'
    BY <1>13, Remembered DEF Restart, StoreInv, DefaultAuthorised, Authorised
  <2> QED
    BY <1>13, <1>15, <2>1, <2>2 DEF Restart
<1>14. CASE UNCHANGED vars
  BY <1>1, <1>2, <1>14, <1>15 DEF vars
<1> QED
  BY <1>3, <1>4, <1>5, <1>6, <1>7, <1>8, <1>9, <1>10, <1>11, <1>12, <1>13, <1>14, <1>15
    DEF Next, Authorise, Use, Forget

\* A careful user's refresh is made with a token of the business it stores the
\* new ones under.
LEMMA RefreshesOwn ==
    ASSUME RegistryInv, careful, NEW c \in Call, NEW place \in Place,
           NEW b \in Business \cup {None}, RefreshBegins(c, b, place),
           b \in Authorised \/ load_business_tokens(b) # NoTokens \/ (b = None /\ ~strayed)
    PROVE  \E x \in Authorised : Await(c, place, x, x)
<1>1. PICK x \in Business, owner \in Business :
        /\ Await(c, place, x, owner)
        /\ b # None => x = b
        /\ \/ x \in Authorised /\ owner = stored[x]
           \/ /\ b \notin Authorised
              /\ load_business_tokens(b) = NoTokens
              /\ memory # NoTokens
              /\ owner = memory.owner
              /\ b = None => x = memory.business_id
  BY RefreshStarts DEF RegistryInv
<1>2. CASE x \in Authorised /\ owner = stored[x]
  BY <1>1, <1>2 DEF RegistryInv, OwnersInv, StoredForOwner
<1>3. CASE /\ ~strayed
           /\ memory # NoTokens
           /\ owner = memory.owner
           /\ x = memory.business_id
  BY <1>1, <1>3 DEF RegistryInv, OwnersInv, StoreInv
<1> QED
  BY <1>1, <1>2, <1>3

\* For a careful user every step keeps labels and owners together.
LEMMA Owners ==
    ASSUME RegistryInv, [Next]_vars
    PROVE  OwnersInv'
<1> SUFFICES ASSUME careful, UNCHANGED careful PROVE OwnersInv'
  BY DEF OwnersInv, Next, vars
<1> USE DEF RegistryInv, Place
<1>1. /\ StoredForOwner
      /\ memory # NoTokens => memory.owner = memory.business_id
      /\ forgotten \cap Authorised = {}
      /\ \A c \in Call :
            /\ pc[c] # "idle" => job[c].owner = job[c].business
            /\ pc[c] \notin {"idle", "exchanging"} => job[c].business \in Authorised
  BY DEF OwnersInv
<1>2. /\ pc \in [Call -> Place] /\ job \in [Call -> Job]
      /\ \A c \in Call : pc[c] # "idle" => job[c].business \in Business
  BY DEF CallsInv
<1> DEFINE CallsOwn == \A c \in Call :
              /\ pc[c] # "idle" => job[c].owner = job[c].business
              /\ pc[c] \notin {"idle", "exchanging"} => job[c].business \in Authorised
           StoreOwn == /\ StoredForOwner
                       /\ memory # NoTokens => memory.owner = memory.business_id
                       /\ forgotten \cap Authorised = {}
<1>3. CallsOwn' /\ StoreOwn' => OwnersInv'
  BY DEF OwnersInv
\* Steps that leave the registry alone.
<1>4. ASSUME UNCHANGED <<stored, forgotten>> PROVE Authorised' = Authorised
  BY <1>4 DEF Authorised
<1>5. UNCHANGED <<stored, memory, forgotten>> => StoreOwn'
  BY <1>1 DEF StoredForOwner, Authorised
<1>6. ASSUME NEW c \in Call, NEW x \in Authorised', NEW place \in Place,
             Await(c, place, x, x), Authorised \subseteq Authorised'
      PROVE  CallsOwn'
  BY <1>1, <1>2, <1>6 DEF Await
<1>7. ASSUME NEW c \in Call, Ends(c), Authorised \subseteq Authorised'
      PROVE  CallsOwn'
  BY <1>1, <1>2, <1>7 DEF Ends
<1>8. ASSUME NEW b \in Business, NEW make_default \in BOOLEAN, NEW written \in BOOLEAN,
             Save(b, b, make_default, written),
             UNCHANGED forgotten \/ (written /\ forgotten' = forgotten \ {b}),
             written => b \notin forgotten'
      PROVE  StoreOwn' /\ Authorised \subseteq Authorised' /\ (written => b \in Authorised')
  <2>1. Authorised' = IF written THEN Authorised \cup {b} ELSE Authorised
    BY <1>8, Saved
  <2>2. /\ stored' = IF written THEN [stored EXCEPT ![b] = b] ELSE stored
        /\ memory' = [business_id |-> b, owner |-> b]
    BY <1>8 DEF Save
  <2>3. StoredForOwner'
    BY <1>1, <2>1, <2>2 DEF StoredForOwner, StoreInv
  <2>4. memory'.owner = memory'.business_id
    BY <2>2
  <2> QED
    BY <1>1, <1>8, <2>1, <2>3, <2>4
<1>9. ASSUME NEW c \in Call, NEW r \in Redirect, r.owner = r.business_id, ExchangeBegins(c, r)
      PROVE  OwnersInv'
  <2>1. CallsOwn'
    BY <1>1, <1>2, <1>4, <1>9 DEF ExchangeBegins, Await
  <2> QED
    BY <1>3, <1>5, <1>9, <2>1 DEF ExchangeBegins
<1>10. ASSUME NEW c \in Call, NEW written \in BOOLEAN, ExchangeDone(c, written)
       PROVE  OwnersInv'
  <2>1. job[c].business \in Business /\ job[c].owner = job[c].business
    BY <1>1, <1>2, <1>10 DEF ExchangeDone
  <2> QED
    BY <1>3, <1>7, <1>8, <1>10, <2>1 DEF ExchangeDone
<1>11. ASSUME NEW c \in Call, NEW b \in Business \cup {None}, RequestBegins(c, b)
       PROVE  OwnersInv'
  <2> DEFINE selected == Selected(b)
             tokens == TokensFor(selected)
  <2>1. /\ selected # None /\ tokens # NoTokens
        /\ UNCHANGED <<stored, forgotten>>
        /\ \/ Await(c, "requesting", selected, tokens.owner) /\ memory' = tokens
           \/ RefreshBegins(c, selected, "refreshing to request") /\ UNCHANGED memory
    BY <1>11 DEF RequestBegins
  <2>2. selected \in Authorised /\ selected \in Business /\ tokens = Labelled(selected)
    BY <1>11, Chosen DEF Authorised
  <2>3. tokens.owner = selected /\ tokens.business_id = selected
    BY <1>1, <2>2, LabelledIsTokens DEF StoreInv, StoredForOwner
  <2> HIDE DEF selected, tokens
  <2>4. CASE Await(c, "requesting", selected, tokens.owner) /\ memory' = tokens
    <3>1. StoreOwn'
      BY <1>1, <1>4, <2>1, <2>3, <2>4 DEF StoredForOwner
    <3> QED
      BY <1>3, <1>4, <1>6, <2>1, <2>2, <2>3, <2>4, <3>1
  <2>5. CASE RefreshBegins(c, selected, "refreshing to request") /\ UNCHANGED memory
    BY <1>3, <1>4, <1>5, <1>6, <2>1, <2>2, <2>5, RefreshesOwn
  <2> QED
    BY <2>1, <2>4, <2>5
<1>12. ASSUME NEW c \in Call, RequestUnauthorised(c) PROVE OwnersInv'
  <2>1. job[c].business \in Authorised /\ job[c].business \in Business
    BY <1>1, <1>2, <1>12 DEF RequestUnauthorised
  <2>2. \E x \in Authorised : Await(c, "refreshing to request", x, x)
    BY <1>12, <2>1, RefreshesOwn DEF RequestUnauthorised
  <2> QED
    BY <1>3, <1>4, <1>5, <1>6, <1>12, <2>2 DEF RequestUnauthorised
<1>13. ASSUME NEW c \in Call, NEW b \in Business \cup {None}, RefreshToolBegins(c, b),
              load_business_tokens(b) # NoTokens \/ (b = None /\ ~strayed)
       PROVE  OwnersInv'
  <2>1. \E x \in Authorised : Await(c, "refreshing", x, x)
    BY <1>13, RefreshesOwn DEF RefreshToolBegins
  <2> QED
    BY <1>3, <1>4, <1>5, <1>6, <1>13, <2>1 DEF RefreshToolBegins
<1>14. ASSUME NEW c \in Call, NEW written \in BOOLEAN, RefreshDone(c, written)
       PROVE  OwnersInv'
  <2>1. /\ job[c].business \in Authorised /\ job[c].business \in Business
        /\ job[c].owner = job[c].business
    BY <1>1, <1>2, <1>14 DEF RefreshDone
  <2>2. /\ Save(job[c].business, job[c].business, FALSE, written) /\ UNCHANGED forgotten
        /\ Ends(c) \/ (written /\ Await(c, "requesting", job[c].business, job[c].business))
    BY <1>14, <2>1 DEF RefreshDone
  <2>3. job[c].business \notin forgotten'
    BY <1>1, <2>1, <2>2
  <2>4. /\ StoreOwn' /\ Authorised \subseteq Authorised'
        /\ written => job[c].business \in Authorised'
    BY <1>8, <2>1, <2>2, <2>3
  <2> QED
    BY <1>3, <1>6, <1>7, <2>2, <2>4
<1>15. ASSUME NEW c \in Call, CallEnds(c) PROVE OwnersInv'
  BY <1>3, <1>4, <1>5, <1>7, <1>15 DEF CallEnds
<1>16. ASSUME NEW b \in Business, NEW loaded \in BOOLEAN, SetDefault(b, loaded)
       PROVE  OwnersInv'
  <2>1. memory' # NoTokens => memory'.owner = memory'.business_id
    BY <1>1, <1>16, LabelledIsTokens DEF SetDefault, StoreInv, StoredForOwner
  <2> QED
    BY <1>1, <1>3, <1>4, <1>16, <2>1 DEF SetDefault, StoredForOwner
\* Nothing is forgotten while a call is under way.
<1>17. ASSUME UNCHANGED <<pc, job>>, \A c \in Call : pc[c] = "idle" PROVE CallsOwn'
  BY <1>17
<1>18. ASSUME NEW b \in Business, NEW loaded \in BOOLEAN, Remove(b, loaded),
              \A c \in Call : pc[c] = "idle"
       PROVE  OwnersInv'
  <2>1. Authorised' = Authorised \ {b} /\ StoreInv'
    BY <1>18, Removed
  <2>2. StoredForOwner'
    BY <1>1, <1>18, <2>1 DEF Remove, StoredForOwner, StoreInv, Authorised
  <2>3. memory' # NoTokens => memory'.owner = memory'.business_id
    <3>1. ( stored \in [Business -> Business \cup {None}] /\ default \in Business \cup {None} )'
      BY <2>1 DEF StoreInv
    <3>2. ( load_business_tokens(None) # NoTokens =>
              /\ load_business_tokens(None).business_id \in Authorised
              /\ load_business_tokens(None).owner = stored[load_business_tokens(None).business_id] )'
      BY <3>1, Remembered, PTL
    <3>3. CASE loaded
      BY <1>18, <2>2, <3>2, <3>3 DEF Remove, StoredForOwner
    <3>4. CASE ~loaded
      BY <1>1, <1>18, <3>4 DEF Remove
    <3> QED
      BY <3>3, <3>4
  <2>4. StoreOwn'
    BY <1>1, <1>18, <2>1, <2>2, <2>3 DEF Remove
  <2> QED
    BY <1>3, <1>17, <1>18, <2>4 DEF Remove
<1>19. ASSUME NEW cleared \in BOOLEAN, Logout(cleared), \A c \in Call : pc[c] = "idle"
       PROVE  OwnersInv'
  <2>1. CASE cleared
    <3>1. Authorised' = {}
      BY <1>19, <2>1 DEF Logout, Cleared, Authorised
    <3> QED
      BY <1>3, <1>17, <1>19, <3>1 DEF Logout, StoredForOwner
  <2>2. CASE ~cleared
    <3>1. memory' = NoTokens /\ UNCHANGED <<stored, forgotten, pc, job>>
      BY <1>19, <2>2 DEF Logout
    <3> QED
      BY <1>1, <1>3, <1>4, <1>17, <1>19, <3>1 DEF StoredForOwner
  <2> QED
    BY <2>1, <2>2
<1>20. CASE Restart
  <2>1. memory' # NoTokens => memory'.owner = memory'.business_id
    BY <1>1, <1>20, Remembered DEF Restart, StoreInv, StoredForOwner
  <2>2. StoreOwn'
    BY <1>1, <1>4, <1>20, <2>1 DEF Restart, StoredForOwner
  <2>3. CallsOwn'
    BY <1>20 DEF Restart
  <2> QED
    BY <1>3, <2>2, <2>3
<1>21. CASE UNCHANGED vars
  <2>1. CallsOwn'
    BY <1>1, <1>4, <1>21 DEF vars
  <2> QED
    BY <1>3, <1>5, <1>21, <2>1 DEF vars
<1> QED
  BY <1>9, <1>10, <1>11, <1>12, <1>13, <1>14, <1>15, <1>16, <1>18, <1>19, <1>20, <1>21
    DEF Next, Authorise, Use, Forget

-----------------------------------------------------------------------------
(* The theorems.                                                           *)

\* The invariant the theorems below are parts of.
THEOREM RegistryInvariant == Spec => []RegistryInv
<1>1. Init => RegistryInv
  <2> SUFFICES ASSUME Init PROVE RegistryInv
    OBVIOUS
  <2>1. Authorised = {}
    BY DEF Init, Authorised
  <2>2. StoreInv
    BY <2>1 DEF Init, StoreInv, DefaultAuthorised
  <2>3. CallsInv
    BY DEF Init, CallsInv, Place, Job, NoJob
  <2>4. OwnersInv
    BY <2>1 DEF Init, OwnersInv, StoredForOwner
  <2> QED
    BY <2>2, <2>3, <2>4 DEF Init, RegistryInv
<1>2. RegistryInv /\ [Next]_vars => RegistryInv'
  <2> SUFFICES ASSUME RegistryInv, [Next]_vars PROVE RegistryInv'
    OBVIOUS
  <2>1. StoreInv' /\ CallsInv' /\ forgotten' \subseteq Business /\ careful' \in BOOLEAN
    BY StoreAndCalls DEF RegistryInv
  <2>2. OwnersInv'
    BY Owners
  <2> QED
    BY <2>1, <2>2 DEF RegistryInv
<1> QED
  BY <1>1, <1>2, PTL DEF Spec

\* Every variable stays in its range: a refresh always has a business to store
\* its tokens under.
THEOREM TypeCorrect == Spec => []TypeOK
<1>1. RegistryInv => TypeOK
  BY DEF RegistryInv, StoreInv, CallsInv, TypeOK
<1> QED
  BY <1>1, RegistryInvariant, PTL

\* There is a default business exactly when one is authorised, and it is one of
\* those.
THEOREM DefaultIsAuthorised == Spec => []DefaultAuthorised
<1>1. RegistryInv => DefaultAuthorised
  BY DEF RegistryInv, StoreInv
<1> QED
  BY <1>1, RegistryInvariant, PTL

\* The business that MyobOAuth used last has tokens, unless a call raised between
\* setting memory and writing the registry, or the other way round.
THEOREM ActiveIsAuthorised == Spec => []ActiveAuthorised
<1>1. RegistryInv => ActiveAuthorised
  BY DEF RegistryInv, StoreInv, ActiveAuthorised, business_id, NoTokens
<1> QED
  BY <1>1, RegistryInvariant, PTL

\* For a careful user the tokens stored for a business were issued for it.
THEOREM StoredForItsOwner == Spec => []CarefulStoredForOwner
<1>1. RegistryInv => CarefulStoredForOwner
  BY DEF RegistryInv, OwnersInv, CarefulStoredForOwner
<1> QED
  BY <1>1, RegistryInvariant, PTL

\* For a careful user a request to a business carries a token issued for it.
THEOREM OwnTokenOnly == Spec => []RequestsWithOwnToken
<1>1. RegistryInv => RequestsWithOwnToken
  BY DEF RegistryInv, OwnersInv, RequestsWithOwnToken
<1> QED
  BY <1>1, RegistryInvariant, PTL

\* For a careful user what was logged out or removed stays away until it is
\* authorised again.
THEOREM ForgottenIsGone == Spec => []ForgottenStaysForgotten
<1>1. RegistryInv => ForgottenStaysForgotten
  BY DEF RegistryInv, OwnersInv, ForgottenStaysForgotten
<1> QED
  BY <1>1, RegistryInvariant, PTL

=============================================================================

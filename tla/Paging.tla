------------------------------- MODULE Paging -------------------------------
(***************************************************************************)
(* One call of a list tool: MyobClient.paged reads a collection page by    *)
(* page with $top and $skip.  Every page is a request of its own, so that  *)
(* between two pages the collection may change, and, when the call names   *)
(* no business, the business that the next page is read from as well.      *)
(*                                                                         *)
(* MYOB is external: a page is what the collection holds when MYOB reads   *)
(* the request.  A collection is a length, its items are its positions:    *)
(* one that comes behind all that were read moves none of those, and one   *)
(* that comes before them, which $orderby allows, or goes, makes the call  *)
(* miss an item or have it twice; from then on the call is "shifted".      *)
(* MyobClient models what one request goes through.                        *)
(*                                                                         *)
(* An operator named Faulty... is a plausible mistake in the one after it; *)
(* no action uses it, the mutation runs substitute it.                     *)
(***************************************************************************)
EXTENDS Integers, Sequences

CONSTANTS
    Business,       \* business ids
    MaxItem,        \* bound: a collection grows to this length
    Initial,        \* the lengths a collection may have when the call starts
    PageCap,        \* 400
    Tops,           \* values of the argument top
    Limits          \* values of the argument max_items

ASSUME ArgumentsAreNumbers ==
    MaxItem \in Nat /\ Initial \subseteq 0 .. MaxItem /\ PageCap \in Nat \ {0} /\ Tops \subseteq Int /\ Limits \subseteq Int

VARIABLES
    remote,     \* remote[b]: the length of the collection of business b
    single,     \* the path answers with one object, not with a collection
    top, max_items, named,  \* the arguments; named is None if no business is
    active,     \* MyobClient._business_id(None)
    pc,         \* "next" (the loop's test), "waiting", "returned", "raised"
    asked,      \* the business the page was asked of
    skip, all_items,
    steady,     \* so far the call has read one business only
    before,     \* the length of the collection when the call started
    shifted     \* an item was deleted, or added before the place reached

vars == <<remote, single, top, max_items, named, active, pc, asked, skip,
          all_items, steady, before, shifted>>

\* What never changes after the call has started.
arguments == <<single, top, max_items, named, before>>

-----------------------------------------------------------------------------
None == "none"

Lower(m, n) == IF m < n THEN m ELSE n

\* Items m .. n of business b.
Items(b, m, n) == [i \in 1 .. n - m + 1 |-> <<b, m + i - 1>>]

FaultyPageSize == Lower(top, PageCap)
PageSize == LET wanted == IF top > 1 THEN top ELSE 1 IN Lower(wanted, PageCap)

\* client._business_id: the business named, or the one in use at this moment.
Selected == IF named # None THEN named ELSE active

Init ==
    /\ remote \in [Business -> Initial]
    /\ single \in BOOLEAN
    /\ top \in Tops /\ max_items \in Limits
    /\ named \in Business \cup {None}
    /\ active \in Business
    /\ pc = "next"
    /\ asked = None
    /\ skip = 0
    /\ all_items = << >>
    /\ steady = TRUE
    /\ before = remote[Selected]
    /\ shifted = FALSE

-----------------------------------------------------------------------------
(* The loop.                                                               *)

RequestPage ==
    /\ pc = "next"
    /\ Len(all_items) < max_items
    /\ pc' = "waiting"
    /\ asked' = Selected
    /\ UNCHANGED <<remote, arguments, active, skip, all_items, steady, shifted>>

\* What MYOB answers: at most page_size items from skip on, or the one object.
Page ==
    IF single THEN Items(asked, 1, Lower(1, remote[asked]))
    ELSE Items(asked, skip + 1, Lower(skip + PageSize, remote[asked]))

FaultyNextSkip == skip + top
NextSkip == skip + PageSize

FaultyGoesOn(items) == Len(items) > PageSize
GoesOn(items) == Len(items) >= PageSize

PageArrives ==
    /\ pc = "waiting"
    /\ all_items' = all_items \o Page
    /\ IF GoesOn(Page)
       THEN pc' = "next" /\ skip' = NextSkip
       ELSE pc' = "returned" /\ UNCHANGED skip
    /\ UNCHANGED <<remote, arguments, active, asked, steady, shifted>>

Enough ==
    /\ pc = "next"
    /\ Len(all_items) >= max_items
    /\ pc' = "returned"
    /\ UNCHANGED <<remote, arguments, active, asked, skip, all_items, steady, shifted>>

\* The request raises, or is cancelled; the pages read so far are dropped.
RequestRaises ==
    /\ pc = "waiting"
    /\ pc' = "raised"
    /\ UNCHANGED <<remote, arguments, active, asked, skip, all_items, steady, shifted>>

Result == SubSeq(all_items, 1, Lower(max_items, Len(all_items)))

-----------------------------------------------------------------------------
(* Everyone else.                                                          *)

Running == pc \in {"next", "waiting"}

\* An item comes behind the place that the call has reached.
Added(b) ==
    /\ Running
    /\ remote[b] < MaxItem
    /\ remote' = [remote EXCEPT ![b] = @ + 1]
    /\ UNCHANGED <<arguments, active, pc, asked, skip, all_items, steady, shifted>>

\* An item comes before that place, or one is deleted.
Shifted(b) ==
    /\ Running
    /\ \E length \in {remote[b] - 1, remote[b] + 1} \cap (0 .. MaxItem) :
          remote' = [remote EXCEPT ![b] = length]
    /\ shifted' = (shifted \/ b = Selected)
    /\ UNCHANGED <<arguments, active, pc, asked, skip, all_items, steady>>

\* Another call selects another business: it authorises it, names it, or makes
\* it the default.
BusinessSelected(b) ==
    /\ Running /\ b # active
    /\ active' = b
    /\ steady' = (steady /\ named # None)
    /\ UNCHANGED <<remote, arguments, pc, asked, skip, all_items, shifted>>

paged == RequestPage \/ PageArrives \/ Enough \/ RequestRaises

Next ==
    \/ paged
    \/ \E b \in Business : Added(b) \/ Shifted(b) \/ BusinessSelected(b)

Spec == Init /\ [][Next]_vars

\* The loop runs on; each of its requests ends (MyobClient!Terminates).
FairSpec == Spec /\ WF_vars(paged)

-----------------------------------------------------------------------------
(* Properties.                                                             *)

\* Every variable stays in its range.
TypeOK ==
    /\ remote \in [Business -> 0 .. MaxItem]
    /\ single \in BOOLEAN
    /\ top \in Int /\ max_items \in Int /\ named \in Business \cup {None}
    /\ active \in Business
    /\ pc \in {"next", "waiting", "returned", "raised"}
    /\ asked \in Business \cup {None}
    /\ skip \in Nat
    /\ all_items \in Seq(Business \X (1 .. MaxItem))
    /\ steady \in BOOLEAN
    /\ before \in Nat
    /\ shifted \in BOOLEAN

\* A collection to which items are only added, and only behind the place reached,
\* while it is read is returned from its start, without a gap or a duplicate, up
\* to max_items, and with everything it held when the call started, whatever top
\* was (167-187).  The order that a caller asks for with $orderby may put a new
\* item before that place, and nothing keeps a read one from being deleted: then
\* the list may repeat an item or lack one, and this says nothing of it.
PrefixIfSteady ==
    (pc = "returned" /\ steady /\ ~shifted /\ ~single)
        => \E n \in 0 .. remote[Selected] :
              /\ Result = Items(Selected, 1, n)
              /\ n >= Lower(max_items, before)
              /\ n <= max_items \/ n = 0

\* The call ends even if the collection grows as fast as it is read or is shifted
\* under it, or the path answers every page with the same object.
ListEnds == <>(pc \in {"returned", "raised"})

=============================================================================

--------------------------- MODULE HomeFilesProofs ---------------------------
(***************************************************************************)
(* Proofs about HomeFiles for every set of processes and of businesses,    *)
(* and any number of keys.                                                 *)
(***************************************************************************)
EXTENDS HomeFiles, WellFoundedInduction, TLAPS

Place == {"idle", "looking", "creating", "filling", "keyed", "writing", "unlinked"}

\* The default business is one of the businesses, if there are any.
Consistent(r) == IF r.businesses = {} THEN r.default = None ELSE r.default \in r.businesses

GoodRegistry == {r \in Registry : Consistent(r)}

TokenJob == {j \in Job : j.does \in {"authorise", "refresh", "set default", "remove", "load"}}

RegistryFile ==
    {Absent, Empty, Mixed}
        \cup {Encrypted(k, payload) : k \in Int, payload \in GoodRegistry \cup Legacy}

\* What the files, the images and the jobs are.
FileInv ==
    /\ subject \in {"signing", "tokens"}
    /\ file \in RegistryFile
    /\ pc \in [Process -> Place]
    /\ mine \in [Process -> Int]
    /\ image \in [Process -> GoodRegistry \cup {NoImage}]
    /\ job \in [Process -> Job \cup {NoJob}]
    /\ \A p \in Process : pc[p] # "idle" => job[p] \in Job
    /\ \A p \in Process : pc[p] # "idle" /\ subject = "tokens" => job[p] \in TokenJob
    /\ \A p \in Process : pc[p] \in {"writing", "unlinked"} => image[p] # NoImage
    /\ \A p \in Process : image[p] # NoImage => subject = "tokens"
    /\ subject = "signing" => file = Absent

\* Nobody relies on a key yet: a creation may still be under way, or have been
\* killed.
Unused ==
    /\ signed = {}
    /\ file.form # "whole"
    /\ \A q \in Process : pc[q] \notin {"keyed", "writing"}

\* Unless two processes raced, whoever has a key has the one that is there, and
\* a key is created only while none is relied on.
KeyInv ==
    /\ key \in Int
    /\ generated \in Nat
    /\ \A p \in Process : pc[p] \in Creating => mine[p] > 0
    /\ ~raced =>
        /\ \A p, q \in Process : pc[p] \in Creating /\ pc[q] \in Creating => p = q
        /\ \A p \in Process : pc[p] \in Creating => Unused
        /\ \A p \in Process : pc[p] \in {"keyed", "writing"} => Found /\ mine[p] = key
        /\ signed \subseteq {key} /\ (signed # {} => Found)
        /\ file.form = "whole" => Found /\ file.key = key

\* The signing key is empty only while it is written, or after a process was
\* killed doing so.
EmptyInv ==
    ~raced =>
        /\ subject = "signing" /\ key = EmptyKey =>
              halfmade \/ \E q \in Process : pc[q] = "filling"
        /\ EmptyKey \in signed => halfmade

\* The file holds what the calls left.
FileKept ==
    IF file = Absent THEN ledger = {}
    ELSE file.form = "whole" /\ Held(RegistryIn(file.payload)) = ledger

\* Processes that take turns: one at most is in a call, what it is about to
\* write is what its call is to leave, and the file is as the last call left it
\* unless it is being written.
TurnInv ==
    ~overlapped =>
        /\ ~raced
        /\ \A p, q \in Process : pc[p] # "idle" /\ pc[q] # "idle" => p = q
        /\ \A p \in Process : pc[p] # "unlinked"
        /\ ~torn =>
            /\ (\A p \in Process : pc[p] # "writing") => FileKept
            /\ \A p \in Process : pc[p] = "writing" => file = Empty
            /\ \A p \in Process : pc[p] # "idle" /\ image[p] # NoImage =>
                  Held(image[p]) = LedgerAfter(job[p])

HomeInv == FileInv /\ KeyInv /\ EmptyInv /\ TurnInv

-----------------------------------------------------------------------------
(* The registry.                                                           *)

SmallerNumber == {p \in Nat \X Nat : p[1] < p[2]}

\* The order of numbers is well-founded.
LEMMA NumbersWellFounded == IsWellFoundedOn(SmallerNumber, Nat)
BY NatLessThanWellFounded DEF OpToRel, SmallerNumber

\* sorted(businesses)[0], the next default business, is one of the businesses.
LEMMA LeastIsOne ==
    ASSUME NEW S, S \subseteq Business, S # {}
    PROVE  Least(S) \in S
<1>1. S \subseteq Nat
  BY BusinessesAreNumbers
<1>2. PICK b \in S : \A d \in S : <<d, b>> \notin SmallerNumber
  BY <1>1, NumbersWellFounded, WFMin
<1>3. ASSUME NEW d \in S PROVE b <= d
  <2>1. ~(d < b)
    BY <1>1, <1>2 DEF SmallerNumber
  <2> QED
    BY <1>1, <2>1
<1> QED
  BY <1>3 DEF Least

\* A registry is neither a payload of the first release nor the absence of one.
LEMMA RegistryApart ==
    ASSUME NEW r \in Registry
    PROVE  "legacy" \notin DOMAIN r /\ r # NoImage
<1>1. DOMAIN r = {"default", "businesses", "unscoped"}
  BY DEF Registry
<1>2. DOMAIN NoImage = {"none"}
  BY DEF NoImage
<1> QED
  BY <1>1, <1>2

\* The empty registry is consistent.
LEMMA NewRegistryGood ==
    NewRegistry \in GoodRegistry /\ Held(NewRegistry) = {}
BY DEF NewRegistry, Held, GoodRegistry, Registry, Consistent

\* Reading a payload of either release gives a registry; of the current one, the
\* registry itself.
LEMMA RegistryRead ==
    ASSUME NEW payload \in GoodRegistry \cup Legacy
    PROVE  /\ RegistryIn(payload) \in GoodRegistry
           /\ payload \in GoodRegistry => RegistryIn(payload) = payload
           /\ payload \in Legacy =>
                 Held(RegistryIn(payload)) = {payload.legacy}
<1>1. None \notin Business
  BY BusinessesAreNumbers DEF None
<1>2. CASE payload \in GoodRegistry
  <2>1. payload \in Registry
    BY <1>2 DEF GoodRegistry
  <2>2. "legacy" \notin DOMAIN payload
    BY <2>1, RegistryApart
  <2>3. payload \notin Legacy
    BY <2>2 DEF Legacy
  <2> QED
    BY <1>2, <2>2, <2>3 DEF RegistryIn
<1>3. CASE payload \in Legacy
  <2>1. "legacy" \in DOMAIN payload /\ payload.legacy \in Business \cup {None}
    BY <1>3 DEF Legacy
  <2>2. payload \notin GoodRegistry
    BY <2>1, RegistryApart DEF GoodRegistry
  <2>3. CASE payload.legacy = None
    <3>1. RegistryIn(payload) = [default |-> None, businesses |-> {}, unscoped |-> TRUE]
      BY <2>1, <2>3 DEF RegistryIn, NewRegistry
    <3> QED
      BY <2>2, <2>3, <3>1 DEF GoodRegistry, Registry, Consistent, Held
  <2>4. CASE payload.legacy # None
    <3>1. RegistryIn(payload) =
            [default |-> payload.legacy, businesses |-> {payload.legacy}, unscoped |-> FALSE]
      BY <2>1, <2>4 DEF RegistryIn, NewRegistry
    <3> QED
      BY <2>1, <2>2, <2>4, <3>1 DEF GoodRegistry, Registry, Consistent, Held
  <2> QED
    BY <2>3, <2>4
<1> QED
  BY <1>2, <1>3

\* What a call makes of a consistent registry is one, with the businesses that
\* the call is to leave.
LEMMA ChangedGood ==
    ASSUME NEW r \in GoodRegistry, NEW j \in TokenJob, ~Refused(j, r)
    PROVE  /\ Changed(j, r) \in GoodRegistry
           /\ Held(r) = ledger => Held(Changed(j, r)) = LedgerAfter(j)
<1>0. r = [default |-> r.default, businesses |-> r.businesses, unscoped |-> r.unscoped]
  BY DEF GoodRegistry, Registry
<1>1. /\ r.default \in Business \cup {None} /\ r.businesses \subseteq Business
      /\ r.unscoped \in BOOLEAN /\ Consistent(r)
  BY DEF GoodRegistry, Registry
<1>2. j.does \in {"authorise", "refresh", "set default", "remove"} /\ j.business \in Business
  <2>1. j.does # "load"
    BY DEF Refused
  <2>2. j \in [does : {"authorise", "refresh", "set default", "remove"}, business : Business]
    BY <2>1 DEF TokenJob, Job
  <2> QED
    BY <2>2
<1>3. None \notin Business
  BY BusinessesAreNumbers DEF None
<1>4. CASE j.does \in {"authorise", "refresh"}
  <2>1. PICK d \in {j.business, r.default} :
           /\ Changed(j, r) = [default |-> d, businesses |-> r.businesses \cup {j.business},
                               unscoped |-> r.unscoped]
           /\ d = r.default => d # None
    BY <1>0, <1>1, <1>2, <1>3, <1>4 DEF Changed, With
  <2>2. d \in r.businesses \cup {j.business}
    BY <1>1, <2>1 DEF Consistent
  <2>3. LedgerAfter(j) = ledger \cup {j.business}
    BY <1>4 DEF LedgerAfter
  <2>4. Changed(j, r) \in Registry /\ Changed(j, r).businesses = r.businesses \cup {j.business}
    <3>1. r.businesses \cup {j.business} \in SUBSET Business /\ d \in Business \cup {None}
      BY <1>1, <1>2
    <3> QED
      BY <1>1, <2>1, <3>1 DEF Registry
  <2>5. Consistent(Changed(j, r))
    BY <2>1, <2>2 DEF Consistent
  <2>6. Held(Changed(j, r)) = Held(r) \cup {j.business}
    BY <2>1 DEF Held
  <2> QED
    BY <2>3, <2>4, <2>5, <2>6 DEF GoodRegistry
<1>5. CASE j.does = "set default"
  <2>1. j.business \in r.businesses
    BY <1>5 DEF Refused
  <2>2. Changed(j, r) = [default |-> j.business, businesses |-> r.businesses,
                         unscoped |-> r.unscoped]
    BY <1>0, <1>5 DEF Changed
  <2>3. LedgerAfter(j) = ledger
    BY <1>5 DEF LedgerAfter
  <2>4. Changed(j, r) \in Registry /\ Changed(j, r).businesses = r.businesses
    <3>1. r.businesses \in SUBSET Business /\ j.business \in Business \cup {None}
      BY <1>1, <1>2
    <3> QED
      BY <1>1, <2>2, <3>1 DEF Registry
  <2>5. Consistent(Changed(j, r))
    BY <2>1, <2>2 DEF Consistent
  <2>6. Held(Changed(j, r)) = Held(r)
    BY <2>2 DEF Held
  <2> QED
    BY <2>3, <2>4, <2>5, <2>6 DEF GoodRegistry
<1>6. CASE j.does = "remove"
  <2> DEFINE left == r.businesses \ {j.business}
             d == IF r.default = j.business THEN Least(left) ELSE r.default
  <2>1. left # {} => Least(left) \in left
    BY <1>1, LeastIsOne
  <2>2. left = {} => Least(left) = None
    BY DEF Least
  <2>3. Changed(j, r) = [default |-> d, businesses |-> left, unscoped |-> r.unscoped]
    BY <1>0, <1>6 DEF Changed, Without
  <2>4. IF left = {} THEN d = None ELSE d \in left
    BY <1>1, <1>2, <1>3, <2>1, <2>2 DEF Consistent
  <2>5. left \subseteq Business
    BY <1>1
  <2> HIDE DEF d
  <2>6. d \in Business \cup {None}
    BY <2>4, <2>5
  <2>7. Held(Changed(j, r)) = Held(r) \ {j.business}
    <3>1. Changed(j, r).businesses = left /\ Changed(j, r).unscoped = r.unscoped
      BY <2>3
    <3>2. j.business # None
      BY <1>2, <1>3
    <3> HIDE DEF left
    <3>3. Held(Changed(j, r)) = left \cup (IF r.unscoped THEN {None} ELSE {})
      BY <3>1 DEF Held
    <3> QED
      BY <3>2, <3>3 DEF Held, left
  <2>8. LedgerAfter(j) = ledger \ {j.business}
    BY <1>6 DEF LedgerAfter
  <2> QED
    BY <1>1, <2>3, <2>4, <2>5, <2>6, <2>7, <2>8 DEF GoodRegistry, Registry, Consistent
<1> QED
  BY <1>2, <1>4, <1>5, <1>6

-----------------------------------------------------------------------------
(* The files.                                                              *)

\* The forms of the registry file are told apart.
LEMMA Forms ==
    /\ Absent.form = "absent" /\ Empty.form = "empty" /\ Mixed.form = "mixed"
    /\ \A k, payload :
          /\ Encrypted(k, payload).form = "whole"
          /\ Encrypted(k, payload).key = k
          /\ Encrypted(k, payload).payload = payload
BY DEF Absent, Empty, Mixed, Encrypted

\* A file that can be parsed is a payload of either release under some key.
LEMMA WholeFile ==
    ASSUME FileInv, file.form = "whole"
    PROVE  file.payload \in GoodRegistry \cup Legacy /\ file.key \in Int
<1>1. file \notin {Absent, Empty, Mixed}
  BY Forms
<1>2. PICK k \in Int, payload \in GoodRegistry \cup Legacy : file = Encrypted(k, payload)
  BY <1>1 DEF FileInv, RegistryFile
<1> QED
  BY <1>2, Forms

\* Where tokens.enc is missing, a call knows at once what it will write.
LEMMA StartImage ==
    ASSUME FileInv, NEW p \in Process, NEW j \in Job, Start(p, j)
    PROVE  /\ subject = "tokens" => j \in TokenJob
           /\ image'[p] \in GoodRegistry \cup {NoImage}
           /\ image'[p] # NoImage => subject = "tokens"
           /\ image'[p] # NoImage => file = Absent /\ image'[p] = Changed(j, NewRegistry)
           /\ file = Absent => ~Refused(j, NewRegistry)
<1>1. subject = "tokens" => j \in TokenJob
  <2>1. subject = "tokens" => j.does \notin {"sign", "verify"}
    BY DEF Start
  <2>2. j.does \in {"authorise", "refresh", "set default", "remove", "load", "sign", "verify"}
    BY DEF Job
  <2> QED
    BY <2>1, <2>2 DEF TokenJob
<1>2. image'[p] = IF file = Absent /\ subject = "tokens" THEN Changed(j, NewRegistry) ELSE NoImage
  BY DEF Start, FileInv
<1>3. file = Absent => ~Refused(j, NewRegistry)
  BY DEF Start
<1>4. file = Absent /\ subject = "tokens" => Changed(j, NewRegistry) \in GoodRegistry
  BY <1>1, <1>3, NewRegistryGood, ChangedGood
<1> QED
  BY <1>1, <1>2, <1>3, <1>4

\* A call that reads the file gets a consistent registry out of it, and changes
\* it into another.
LEMMA ReadImage ==
    ASSUME FileInv, NEW p \in Process, pc[p] # "idle", subject = "tokens",
           file.form = "whole", ~Refused(job[p], RegistryIn(file.payload))
    PROVE  /\ Changed(job[p], RegistryIn(file.payload)) \in GoodRegistry
           /\ Held(RegistryIn(file.payload)) = ledger =>
                Held(Changed(job[p], RegistryIn(file.payload))) = LedgerAfter(job[p])
<1>1. RegistryIn(file.payload) \in GoodRegistry
  BY WholeFile, RegistryRead
<1>2. job[p] \in TokenJob
  BY DEF FileInv
<1> QED
  BY <1>1, <1>2, ChangedGood

\* Every step leaves files, images and jobs what they are.
LEMMA FileStep ==
    ASSUME FileInv, [Next]_vars, KeyInv
    PROVE  FileInv'
<1>0. file \in RegistryFile
  BY DEF FileInv
<1>1. ASSUME NEW p \in Process, Ends(p), UNCHANGED <<subject, keyring>>,
             file' \in RegistryFile, file' = file \/ subject = "tokens"
      PROVE  FileInv'
  BY <1>1 DEF Ends, NoKey, FileInv, Place
<1>2. ASSUME NEW p \in Process, Look(p) PROVE FileInv'
  <2>1. /\ UNCHANGED <<subject, keyring, file, job, image>>
        /\ pc[p] = "looking"
        /\ \E place \in {"keyed", "creating"} : pc' = [pc EXCEPT ![p] = place]
        /\ \E k \in {key, generated + 1} : mine' = [mine EXCEPT ![p] = k]
    BY <1>2 DEF Look, history
  <2>2. key \in Int /\ generated + 1 \in Int
    BY DEF KeyInv
  <2> QED
    BY <2>1, <2>2 DEF FileInv, Place
<1>3. ASSUME NEW p \in Process, CreateKey(p) \/ FillKey(p) PROVE FileInv'
  <2>1. /\ UNCHANGED <<subject, keyring, file, job, image, mine>>
        /\ pc[p] \in {"creating", "filling"}
        /\ \E place \in {"keyed", "filling"} : pc' = [pc EXCEPT ![p] = place]
    BY <1>3 DEF CreateKey, FillKey, locals
  <2> QED
    BY <2>1 DEF FileInv, Place
<1>4. ASSUME NEW p \in Process, NEW j \in Job, Start(p, j) PROVE FileInv'
  <2>1. /\ UNCHANGED <<subject, keyring, file, mine>>
        /\ pc' = [pc EXCEPT ![p] = "looking"] /\ job' = [job EXCEPT ![p] = j]
        /\ \E i : image' = [image EXCEPT ![p] = i]
    BY <1>4 DEF Start
  <2> QED
    BY <1>4, <2>1, StartImage DEF FileInv, Place
<1>5. ASSUME NEW p \in Process, Sign(p) PROVE FileInv'
  BY <1>0, <1>1, <1>5 DEF Sign, history
<1>6. ASSUME NEW p \in Process, ReadRegistry(p) PROVE FileInv'
  <2>1. pc[p] = "keyed" /\ subject = "tokens" /\ UNCHANGED <<subject, keyring, file>>
    BY <1>6 DEF ReadRegistry
  <2>2. CASE Ends(p)
    BY <1>0, <1>1, <2>1, <2>2
  <2>3. CASE ~Ends(p)
    <3>1. /\ file.form = "whole" /\ ~Refused(job[p], RegistryIn(file.payload))
          /\ image' = [image EXCEPT ![p] = Changed(job[p], RegistryIn(file.payload))]
          /\ pc' = [pc EXCEPT ![p] = "looking"]
          /\ mine' = [mine EXCEPT ![p] = NoKey]
          /\ job' = job
      BY <1>6, <2>3 DEF ReadRegistry
    <3>2. Changed(job[p], RegistryIn(file.payload)) \in GoodRegistry
      BY <2>1, <3>1, ReadImage
    <3> QED
      BY <2>1, <3>1, <3>2 DEF NoKey, FileInv, Place
  <2> QED
    BY <2>2, <2>3
<1>7. ASSUME NEW p \in Process, EmptyRegistry(p) PROVE FileInv'
  BY <1>7 DEF EmptyRegistry, locals, FileInv, RegistryFile, Place
<1>8. ASSUME NEW p \in Process, WriteRegistry(p) PROVE FileInv'
  <2>1. image[p] \in GoodRegistry /\ mine[p] \in Int /\ subject = "tokens"
    BY <1>8 DEF WriteRegistry, FileInv
  <2> QED
    BY <1>0, <1>1, <1>8, <2>1 DEF WriteRegistry, RegistryFile
<1>9. ASSUME NEW p \in Process, Clear(p) PROVE FileInv'
  <2>1. /\ UNCHANGED <<subject, keyring, job, mine, image>> /\ file' = Absent
        /\ pc' = [q \in Process |-> IF pc[q] = "writing" THEN "unlinked" ELSE pc[q]]
    BY <1>9 DEF Clear, locals
  <2> QED
    BY <2>1 DEF FileInv, RegistryFile, Place
<1>10. ASSUME NEW p \in Process, Kill(p) PROVE FileInv'
  BY <1>0, <1>1, <1>10 DEF Kill
<1>11. CASE UNCHANGED vars
  BY <1>11 DEF vars, FileInv
<1> QED
  BY <1>2, <1>3, <1>4, <1>5, <1>6, <1>7, <1>8, <1>9, <1>10, <1>11 DEF Next

-----------------------------------------------------------------------------
(* The key.                                                                *)

\* Every step leaves the key to those who have it, unless two processes race.
LEMMA KeyStep ==
    ASSUME FileInv, KeyInv, [Next]_vars
    PROVE  KeyInv'
<1> DEFINE Numbers == /\ key \in Int
                      /\ generated \in Nat
                      /\ \A p \in Process : pc[p] \in Creating => mine[p] > 0
           Served == /\ \A p, q \in Process : pc[p] \in Creating /\ pc[q] \in Creating => p = q
                     /\ \A p \in Process : pc[p] \in Creating => Unused
                     /\ \A p \in Process : pc[p] \in {"keyed", "writing"} => Found /\ mine[p] = key
                     /\ signed \subseteq {key} /\ (signed # {} => Found)
                     /\ file.form = "whole" => Found /\ file.key = key
<1>0. /\ KeyInv <=> Numbers /\ (~raced => Served)
      /\ KeyInv' <=> Numbers' /\ (~raced' => Served')
  BY DEF KeyInv
<1>1. /\ pc \in [Process -> Place] /\ mine \in [Process -> Int]
      /\ Numbers /\ (~raced => Served)
  BY <1>0 DEF FileInv
<1> USE DEF Creating, Unused, Found
\* A call that ends leaves nobody else in another place.
<1>2. ASSUME NEW p \in Process, Ends(p), pc[p] \notin Creating,
             UNCHANGED <<subject, key, generated, raced>>,
             signed' = signed \/ (pc[p] = "keyed" /\ signed' \subseteq signed \cup {mine[p]}),
             \/ file'.form # "whole" \/ file' = file
             \/ pc[p] = "writing" /\ file'.key = mine[p]
      PROVE  KeyInv'
  <2>1. /\ pc'[p] = "idle"
        /\ \A q \in Process : q # p => pc'[q] = pc[q] /\ mine'[q] = mine[q]
    BY <1>1, <1>2 DEF Ends
  <2>2. Numbers'
    BY <1>1, <1>2, <2>1
  <2>3. ASSUME ~raced PROVE Served'
    BY <1>1, <1>2, <2>1, <2>3
  <2> QED
    BY <1>0, <1>2, <2>2, <2>3
<1>3. ASSUME NEW p \in Process, Look(p) PROVE KeyInv'
  <2>1. /\ pc[p] = "looking"
        /\ raced' = (raced \/ \E q \in Process \ {p} : pc[q] \in Creating)
        /\ UNCHANGED <<subject, key, file, signed>>
    BY <1>3 DEF Look, Others
  <2>2. CASE Found
    <3>1. pc' = [pc EXCEPT ![p] = "keyed"] /\ mine' = [mine EXCEPT ![p] = key]
          /\ generated' = generated
      BY <1>3, <2>2 DEF Look
    <3>2. Numbers'
      BY <1>1, <2>1, <3>1
    <3>3. ASSUME ~raced' PROVE Served'
      <4>1. ~raced /\ \A q \in Process : pc[q] \notin Creating
        BY <2>1, <3>3
      <4> QED
        BY <1>1, <2>1, <2>2, <3>1, <4>1
    <3> QED
      BY <1>0, <3>2, <3>3
  <2>3. CASE ~Found
    <3>1. /\ pc' = [pc EXCEPT ![p] = "creating"]
          /\ generated' = generated + 1 /\ mine' = [mine EXCEPT ![p] = generated']
      BY <1>3, <2>3 DEF Look
    <3>2. Numbers'
      BY <1>1, <2>1, <3>1
    <3>3. ASSUME ~raced' PROVE Served'
      <4>1. ~raced /\ \A q \in Process : pc[q] \notin Creating
        BY <2>1, <3>3
      <4>2. signed = {} /\ file.form # "whole" /\ \A q \in Process : pc[q] \notin {"keyed", "writing"}
        BY <1>1, <2>3, <4>1
      <4> QED
        BY <1>1, <2>1, <3>1, <4>1, <4>2
    <3> QED
      BY <1>0, <3>2, <3>3
  <2> QED
    BY <2>2, <2>3
<1>4. ASSUME NEW p \in Process, CreateKey(p) \/ FillKey(p) PROVE KeyInv'
  <2>1. /\ pc[p] \in Creating /\ UNCHANGED <<subject, generated, mine, file, signed, raced>>
        /\ \/ pc' = [pc EXCEPT ![p] = "keyed"] /\ key' = mine[p]
           \/ pc' = [pc EXCEPT ![p] = "filling"] /\ key' = EmptyKey
    BY <1>4 DEF CreateKey, FillKey, locals
  <2>2. Numbers'
    BY <1>1, <2>1 DEF EmptyKey
  <2>3. ASSUME ~raced PROVE Served'
    <3>1. Unused /\ \A q \in Process : q # p => pc[q] \notin Creating
      BY <1>1, <2>1, <2>3
    <3>2. mine[p] # NoKey /\ mine[p] # EmptyKey
      BY <1>1, <2>1 DEF NoKey, EmptyKey
    <3> QED
      BY <1>1, <2>1, <3>1, <3>2
  <2> QED
    BY <1>0, <2>1, <2>2, <2>3
<1>5. ASSUME NEW p \in Process, NEW j \in Job, Start(p, j) PROVE KeyInv'
  <2>1. /\ pc[p] = "idle" /\ pc' = [pc EXCEPT ![p] = "looking"]
        /\ UNCHANGED <<subject, key, generated, mine, file, signed, raced>>
    BY <1>5 DEF Start
  <2> QED
    BY <1>0, <1>1, <2>1
<1>6. ASSUME NEW p \in Process, Sign(p) PROVE KeyInv'
  BY <1>2, <1>6 DEF Sign, history
<1>7. ASSUME NEW p \in Process, ReadRegistry(p) PROVE KeyInv'
  <2>1. pc[p] = "keyed" /\ UNCHANGED <<subject, key, generated, file, signed, raced>>
    BY <1>7 DEF ReadRegistry
  <2>2. CASE Ends(p)
    BY <1>2, <2>1, <2>2
  <2>3. CASE pc' = [pc EXCEPT ![p] = "looking"] /\ mine' = [mine EXCEPT ![p] = NoKey]
    <3>1. Numbers'
      BY <1>1, <2>1, <2>3
    <3>2. ~raced => Served'
      BY <1>1, <2>1, <2>3
    <3> QED
      BY <1>0, <2>1, <3>1, <3>2
  <2> QED
    BY <1>7, <2>2, <2>3 DEF ReadRegistry
<1>8. ASSUME NEW p \in Process, EmptyRegistry(p) PROVE KeyInv'
  <2>1. /\ pc[p] = "keyed" /\ pc' = [pc EXCEPT ![p] = "writing"] /\ file'.form # "whole"
        /\ UNCHANGED <<subject, key, generated, mine, signed, raced>>
    BY <1>8, Forms DEF EmptyRegistry, locals
  <2>2. Numbers'
    BY <1>1, <2>1
  <2>3. ~raced => Served'
    BY <1>1, <2>1
  <2> QED
    BY <1>0, <2>1, <2>2, <2>3
<1>9. ASSUME NEW p \in Process, WriteRegistry(p) PROVE KeyInv'
  BY <1>2, <1>9, Forms DEF WriteRegistry
<1>10. ASSUME NEW p \in Process, Clear(p) PROVE KeyInv'
  <2>1. /\ pc' = [q \in Process |-> IF pc[q] = "writing" THEN "unlinked" ELSE pc[q]]
        /\ file'.form # "whole"
        /\ UNCHANGED <<subject, key, generated, mine, signed, raced>>
    BY <1>10, Forms DEF Clear, locals
  <2>2. Numbers'
    BY <1>1, <2>1
  <2>3. ~raced => Served'
    BY <1>1, <2>1
  <2> QED
    BY <1>0, <2>1, <2>2, <2>3
<1>11. ASSUME NEW p \in Process, Kill(p) PROVE KeyInv'
  <2>1. /\ Ends(p) /\ UNCHANGED <<subject, key, generated, file, signed, raced>>
    BY <1>11 DEF Kill
  <2>2. /\ pc'[p] = "idle"
        /\ \A q \in Process : q # p => pc'[q] = pc[q] /\ mine'[q] = mine[q]
    BY <1>1, <2>1 DEF Ends
  <2>3. Numbers'
    BY <1>1, <2>1, <2>2
  <2>4. ~raced => Served'
    BY <1>1, <2>1, <2>2
  <2> QED
    BY <1>0, <2>1, <2>3, <2>4
<1>12. CASE UNCHANGED vars
  BY <1>0, <1>1, <1>12 DEF vars
<1> QED
  BY <1>3, <1>4, <1>5, <1>6, <1>7, <1>8, <1>9, <1>10, <1>11, <1>12 DEF Next

\* Nothing but a kill leaves the signing key empty for others to use.
LEMMA EmptyStep ==
    ASSUME FileInv, KeyInv, EmptyInv, [Next]_vars
    PROVE  EmptyInv'
<1> DEFINE Filling == \E q \in Process : pc[q] = "filling"
<1> SUFFICES ASSUME ~raced'
             PROVE  /\ (subject = "signing" /\ key = EmptyKey => halfmade \/ Filling)'
                    /\ EmptyKey \in signed' => halfmade'
  BY DEF EmptyInv
<1> DEFINE Goal == /\ (subject = "signing" /\ key = EmptyKey => halfmade \/ Filling)'
                   /\ EmptyKey \in signed' => halfmade'
<1>1. ~raced
  BY DEF Next, Look, CreateKey, FillKey, Start, Sign, ReadRegistry, EmptyRegistry, WriteRegistry,
         Clear, Kill, vars
<1>2. /\ pc \in [Process -> Place]
      /\ subject = "signing" /\ key = EmptyKey => halfmade \/ Filling
      /\ EmptyKey \in signed => halfmade
      /\ \A p \in Process : pc[p] = "keyed" => mine[p] = key
      /\ Filling => \A p \in Process : pc[p] # "keyed"
      /\ \A p \in Process : pc[p] = "filling" => mine[p] > 0
  BY <1>1 DEF FileInv, KeyInv, EmptyInv, Creating, Unused
\* Steps that leave the key, and those who fill it, alone.
<1>3. ASSUME UNCHANGED <<subject, key, halfmade, signed>>,
             \A q \in Process : pc[q] = "filling" => pc'[q] = "filling"
      PROVE  Goal
  BY <1>2, <1>3
<1>4. ASSUME NEW p \in Process, pc[p] # "filling", NEW place, pc' = [pc EXCEPT ![p] = place]
      PROVE  \A q \in Process : pc[q] = "filling" => pc'[q] = "filling"
  BY <1>2, <1>4
<1>5. ASSUME NEW p \in Process, Look(p) \/ (\E j \in Job : Start(p, j)) \/ ReadRegistry(p)
                                \/ EmptyRegistry(p) \/ WriteRegistry(p)
      PROVE  Goal
  <2>1. UNCHANGED <<subject, key, halfmade, signed>> /\ pc[p] # "filling"
    BY <1>5 DEF Look, Start, ReadRegistry, EmptyRegistry, WriteRegistry, history
  <2>2. \E place : pc' = [pc EXCEPT ![p] = place]
    BY <1>5 DEF Look, Start, ReadRegistry, EmptyRegistry, WriteRegistry, Ends
  <2> QED
    BY <1>3, <1>4, <2>1, <2>2
<1>6. ASSUME NEW p \in Process, CreateKey(p) PROVE Goal
  <2>1. /\ key' = IF keyring THEN mine[p] ELSE EmptyKey
        /\ pc' = [pc EXCEPT ![p] = IF keyring THEN "keyed" ELSE "filling"]
        /\ UNCHANGED <<subject, signed, halfmade>>
        /\ mine[p] > 0
    BY <1>6 DEF CreateKey, history, KeyInv, Creating
  <2>2. key' = EmptyKey => pc'[p] = "filling"
    BY <1>2, <2>1 DEF EmptyKey
  <2> QED
    BY <1>2, <2>1, <2>2
<1>7. ASSUME NEW p \in Process, FillKey(p) PROVE Goal
  <2>1. key' = mine[p] /\ mine[p] > 0 /\ UNCHANGED <<signed, halfmade>>
    BY <1>2, <1>7 DEF FillKey, history
  <2>2. key' # EmptyKey
    BY <2>1 DEF EmptyKey
  <2> QED
    BY <1>2, <2>1, <2>2
<1>8. ASSUME NEW p \in Process, Sign(p) PROVE Goal
  <2>1. /\ pc[p] = "keyed" /\ subject = "signing" /\ UNCHANGED <<subject, key, halfmade>>
        /\ signed' \subseteq signed \cup {mine[p]}
        /\ Ends(p)
    BY <1>8 DEF Sign, history
  <2>2. \A q \in Process : pc[q] = "filling" => pc'[q] = "filling"
    BY <1>4, <2>1 DEF Ends
  <2>3. key = EmptyKey => halfmade
    BY <1>2, <2>1
  <2> QED
    BY <1>2, <2>1, <2>2, <2>3
<1>9. ASSUME NEW p \in Process, Clear(p) PROVE Goal
  <2>1. /\ pc' = [q \in Process |-> IF pc[q] = "writing" THEN "unlinked" ELSE pc[q]]
        /\ UNCHANGED <<subject, key, halfmade, signed>>
    BY <1>9 DEF Clear
  <2> QED
    BY <1>2, <1>3, <2>1
<1>10. ASSUME NEW p \in Process, Kill(p) PROVE Goal
  <2>1. /\ Ends(p) /\ UNCHANGED <<subject, key, signed>>
        /\ halfmade' = (halfmade \/ (subject = "signing" /\ pc[p] = "filling"))
    BY <1>10 DEF Kill
  <2>2. CASE pc[p] # "filling"
    <3>1. \A q \in Process : pc[q] = "filling" => pc'[q] = "filling"
      BY <1>4, <2>1, <2>2 DEF Ends
    <3> QED
      BY <1>2, <2>1, <3>1
  <2>3. CASE pc[p] = "filling"
    BY <1>2, <2>1, <2>3
  <2> QED
    BY <2>2, <2>3
<1>11. CASE UNCHANGED vars
  BY <1>2, <1>11 DEF vars
<1> QED
  BY <1>5, <1>6, <1>7, <1>8, <1>9, <1>10, <1>11 DEF Next

-----------------------------------------------------------------------------
(* Taking turns.                                                           *)

\* Every step of processes that take turns leaves the file as the calls left it.
LEMMA TurnStep ==
    ASSUME FileInv, TurnInv, [Next]_vars
    PROVE  TurnInv'
<1> DEFINE Alone == \A p, q \in Process : pc[p] # "idle" /\ pc[q] # "idle" => p = q
           Kept == /\ (\A p \in Process : pc[p] # "writing") => FileKept
                   /\ \A p \in Process : pc[p] = "writing" => file = Empty
                   /\ \A p \in Process : pc[p] # "idle" /\ image[p] # NoImage =>
                         Held(image[p]) = LedgerAfter(job[p])
<1> SUFFICES ASSUME ~overlapped'
             PROVE  /\ ~raced' /\ Alone' /\ (\A p \in Process : pc[p] # "unlinked")'
                    /\ ~torn' => Kept'
  BY DEF TurnInv
<1> DEFINE Goal == /\ ~raced' /\ Alone' /\ (\A p \in Process : pc[p] # "unlinked")'
                   /\ ~torn' => Kept'
<1>1. ~overlapped
  BY DEF Next, Look, CreateKey, FillKey, Start, Sign, ReadRegistry, EmptyRegistry, WriteRegistry,
         Clear, Kill, Overlaps, history, vars
<1>2. /\ pc \in [Process -> Place] /\ job \in [Process -> Job \cup {NoJob}]
      /\ image \in [Process -> GoodRegistry \cup {NoImage}]
  BY DEF FileInv
<1>3. /\ ~raced /\ Alone /\ \A p \in Process : pc[p] # "unlinked"
      /\ ~torn => Kept
  BY <1>1 DEF TurnInv
<1>4. UNCHANGED <<file, ledger>> => (FileKept' <=> FileKept)
  BY DEF FileKept
\* A step of the one process that is in a call, which stays in it.
<1>5. ASSUME NEW p \in Process, pc[p] \notin {"idle", "writing"},
             NEW place \in {"looking", "keyed", "creating", "filling"},
             pc' = [pc EXCEPT ![p] = place], UNCHANGED <<job, image, file, ledger, torn>>, ~raced'
      PROVE  Goal
  <2>1. \A j : LedgerAfter(j)' = LedgerAfter(j)
    BY <1>5 DEF LedgerAfter
  <2> QED
    BY <1>2, <1>3, <1>4, <1>5, <2>1
\* The one process that is in a call ends it.
<1>6. ASSUME NEW p \in Process, pc[p] # "idle", Ends(p), UNCHANGED raced, ~torn' => FileKept'
      PROVE  Goal
  <2>1. \A q \in Process : pc'[q] = "idle"
    BY <1>2, <1>3, <1>6 DEF Ends
  <2> QED
    BY <1>3, <1>6, <2>1
<1>7. ASSUME NEW p \in Process, Look(p) PROVE Goal
  <2>1. pc[p] = "looking" /\ UNCHANGED <<job, image, file, ledger, torn>>
    BY <1>7 DEF Look, history
  <2>2. ~raced'
    BY <1>3, <1>7, <2>1 DEF Look, Others, Creating
  <2>3. \E place \in {"keyed", "creating"} : pc' = [pc EXCEPT ![p] = place]
    BY <1>7 DEF Look
  <2> QED
    BY <1>5, <2>1, <2>2, <2>3
<1>8. ASSUME NEW p \in Process, CreateKey(p) \/ FillKey(p) PROVE Goal
  <2>1. pc[p] \in {"creating", "filling"} /\ UNCHANGED <<job, image, file, ledger, torn, raced>>
    BY <1>8 DEF CreateKey, FillKey, history, locals
  <2>2. \E place \in {"keyed", "filling"} : pc' = [pc EXCEPT ![p] = place]
    BY <1>8 DEF CreateKey, FillKey
  <2> QED
    BY <1>3, <1>5, <2>1, <2>2
<1>9. ASSUME NEW p \in Process, NEW j \in Job, Start(p, j) PROVE Goal
  <2>1. /\ pc' = [pc EXCEPT ![p] = "looking"] /\ job' = [job EXCEPT ![p] = j]
        /\ UNCHANGED <<file, raced, torn, ledger>>
    BY <1>9 DEF Start
  <2>2. \A q \in Process : pc[q] = "idle"
    BY <1>9 DEF Start, Overlaps, Others
  <2>3. ASSUME ~torn PROVE Kept'
    <3>1. FileKept
      BY <1>3, <2>2, <2>3
    <3>2. image'[p] # NoImage => Held(image'[p]) = LedgerAfter(j)
      <4>1. file = Absent => ledger = {}
        BY <3>1 DEF FileKept
      <4> QED
        BY <1>9, <4>1, StartImage, NewRegistryGood, ChangedGood
    <3>3. LedgerAfter(j)' = LedgerAfter(j)
      BY <2>1 DEF LedgerAfter
    <3> QED
      BY <1>2, <1>4, <2>1, <2>2, <3>1, <3>2, <3>3
  <2> QED
    BY <1>2, <1>3, <2>1, <2>2, <2>3
<1>10. ASSUME NEW p \in Process, Sign(p) PROVE Goal
  <2>1. pc[p] = "keyed" /\ Ends(p) /\ UNCHANGED <<file, ledger, torn, raced>>
    BY <1>10 DEF Sign, history
  <2> QED
    BY <1>3, <1>4, <1>6, <2>1
<1>11. ASSUME NEW p \in Process, ReadRegistry(p) PROVE Goal
  <2>1. /\ pc[p] = "keyed" /\ subject = "tokens"
        /\ UNCHANGED <<file, ledger, torn, raced>>
    BY <1>11 DEF ReadRegistry, history
  <2>2. ~torn => FileKept
    BY <1>3, <2>1
  <2>3. CASE Ends(p)
    BY <1>4, <1>6, <2>1, <2>2, <2>3
  <2>4. CASE ~Ends(p)
    <3> DEFINE r == RegistryIn(file.payload)
    <3>1. /\ file.form = "whole" /\ ~Refused(job[p], r)
          /\ image' = [image EXCEPT ![p] = Changed(job[p], r)]
          /\ pc' = [pc EXCEPT ![p] = "looking"] /\ job' = job
      BY <1>11, <2>4 DEF ReadRegistry
    <3>2. ~torn => Held(r) = ledger
      BY <2>2, <3>1, Forms DEF FileKept
    <3>3. ~torn => Held(Changed(job[p], r)) = LedgerAfter(job[p])
      BY <2>1, <3>1, <3>2, ReadImage
    <3>4. LedgerAfter(job[p])' = LedgerAfter(job[p])
      BY <2>1, <3>1 DEF LedgerAfter
    <3> HIDE DEF r
    <3>5. \A q \in Process : q # p => pc[q] = "idle" /\ pc'[q] = "idle"
      BY <1>2, <1>3, <2>1, <3>1
    <3>6. pc'[p] = "looking" /\ image'[p] = Changed(job[p], r)
      BY <1>2, <3>1
    <3> QED
      BY <1>3, <1>4, <2>1, <2>2, <3>1, <3>3, <3>4, <3>5, <3>6
  <2> QED
    BY <2>3, <2>4
<1>12. ASSUME NEW p \in Process, EmptyRegistry(p) PROVE Goal
  <2>1. /\ pc[p] = "keyed" /\ pc' = [pc EXCEPT ![p] = "writing"] /\ file' = Empty
        /\ UNCHANGED <<job, image, ledger, torn, raced>>
    BY <1>12 DEF EmptyRegistry, locals, history
  <2>2. LedgerAfter(job[p])' = LedgerAfter(job[p])
    BY <2>1 DEF LedgerAfter
  <2>3. \A q \in Process : q # p => pc'[q] = "idle"
    BY <1>2, <1>3, <2>1
  <2> QED
    BY <1>2, <1>3, <2>1, <2>2, <2>3
<1>13. ASSUME NEW p \in Process, WriteRegistry(p) PROVE Goal
  <2>1. /\ pc[p] = "writing" /\ Ends(p) /\ UNCHANGED <<torn, raced>>
        /\ ledger' = LedgerAfter(job[p])
    BY <1>3, <1>13 DEF WriteRegistry
  <2>2. ASSUME ~torn PROVE FileKept'
    <3>1. file' = Encrypted(mine[p], image[p])
      BY <1>3, <1>13, <2>1, <2>2 DEF WriteRegistry
    <3>2. image[p] \in GoodRegistry
      BY <2>1 DEF FileInv
    <3>3. image[p] # NoImage
      BY <3>2, RegistryApart DEF GoodRegistry
    <3>4. Held(image[p]) = ledger'
      BY <1>3, <2>1, <2>2, <3>3
    <3>5. /\ file' # Absent /\ file'.form = "whole"
          /\ RegistryIn(file'.payload) = image[p]
      BY <3>1, <3>2, Forms, RegistryRead
    <3> QED
      BY <3>4, <3>5 DEF FileKept
  <2> QED
    BY <1>6, <2>1, <2>2
<1>14. ASSUME NEW p \in Process, Clear(p) PROVE Goal
  <2>1. \A q \in Process : pc[q] = "idle"
    BY <1>14 DEF Clear, Overlaps, Others
  <2>2. /\ \A q \in Process : pc'[q] = "idle"
        /\ file' = Absent /\ ledger' = {} /\ UNCHANGED raced
    BY <1>14, <2>1 DEF Clear
  <2>3. FileKept'
    BY <2>2 DEF FileKept
  <2> QED
    BY <1>3, <2>2, <2>3
<1>15. ASSUME NEW p \in Process, Kill(p) PROVE Goal
  <2>1. /\ pc[p] # "idle" /\ Ends(p) /\ UNCHANGED <<file, ledger, raced>>
        /\ ~torn' => ~torn /\ pc[p] # "writing"
    BY <1>15 DEF Kill
  <2>2. ~torn' => FileKept
    BY <1>3, <2>1
  <2> QED
    BY <1>4, <1>6, <2>1, <2>2
<1>16. CASE UNCHANGED vars
  <2>1. \A j : LedgerAfter(j)' = LedgerAfter(j)
    BY <1>16 DEF LedgerAfter, vars
  <2> QED
    BY <1>3, <1>4, <1>16, <2>1 DEF vars
<1> QED
  BY <1>7, <1>8, <1>9, <1>10, <1>11, <1>12, <1>13, <1>14, <1>15, <1>16 DEF Next

-----------------------------------------------------------------------------
(* The theorems.                                                           *)

\* The invariant the theorems below follow from.
THEOREM HomeInvariant == Spec => []HomeInv
<1>1. Init => HomeInv
  <2> SUFFICES ASSUME Init PROVE HomeInv
    OBVIOUS
  <2>1. file \in RegistryFile /\ (subject = "signing" => file = Absent)
        /\ (file.form = "whole" => key = 1 /\ file.key = 1)
    BY Forms DEF Init, RegistryFile
  <2>2. FileInv
    BY <2>1 DEF Init, FileInv, Place, NoKey
  <2>3. KeyInv
    BY <2>1 DEF Init, KeyInv, Creating, NoKey, EmptyKey, Found
  <2>4. FileKept
    <3>1. CASE file = Absent
      BY <3>1 DEF Init, FileKept
    <3>2. CASE file # Absent
      <4>1. PICK payload \in Legacy : file = Encrypted(1, payload)
        BY <3>2 DEF Init
      <4>2. ledger = {payload.legacy}
        BY <3>2, <4>1, Forms DEF Init
      <4> QED
        BY <3>2, <4>1, <4>2, Forms, RegistryRead DEF FileKept
    <3> QED
      BY <3>1, <3>2
  <2>5. TurnInv
    BY <2>4 DEF Init, TurnInv
  <2>6. EmptyInv
    BY DEF Init, EmptyInv, NoKey, EmptyKey
  <2> QED
    BY <2>2, <2>3, <2>5, <2>6 DEF HomeInv
<1>2. HomeInv /\ [Next]_vars => HomeInv'
  BY FileStep, KeyStep, EmptyStep, TurnStep DEF HomeInv
<1> QED
  BY <1>1, <1>2, PTL DEF Spec

\* Unless two processes raced to create it, the key that is there is the one
\* every token was signed and the registry encrypted with, and it is empty, when
\* a token is signed, only after a process was killed while it created the key.
THEOREM TheKeyServes == Spec => []KeyServes
<1>1. HomeInv => KeyServes
  BY DEF HomeInv, KeyInv, EmptyInv, KeyServes
<1> QED
  BY <1>1, HomeInvariant, PTL

\* A registry that can be read has a default business if it has any, whatever
\* processes overlap, lose each other's updates or are killed.
THEOREM RegistryIsConsistent == Spec => []RegistryConsistent
<1>1. HomeInv => RegistryConsistent
  <2> SUFFICES ASSUME HomeInv, file.form = "whole"
               PROVE  Consistent(RegistryIn(file.payload))
    BY DEF RegistryConsistent, Consistent
  <2> QED
    BY WholeFile, RegistryRead DEF HomeInv, GoodRegistry
<1> QED
  BY <1>1, HomeInvariant, PTL

\* Processes that take turns find each other's changes, in a registry that they
\* can read.
THEOREM TurnsAreKept == Spec => []TurnsKept
<1>1. HomeInv => TurnsKept
  <2> SUFFICES ASSUME HomeInv, ~overlapped, ~torn, \A p \in Process : pc[p] = "idle", file # Absent
               PROVE  /\ file.form = "whole" /\ file.key = key
                      /\ Held(RegistryIn(file.payload)) = ledger
    BY DEF HomeInv, TurnsKept, TurnInv, FileKept
  <2>1. FileKept /\ ~raced
    BY DEF HomeInv, TurnInv
  <2> QED
    BY <2>1 DEF HomeInv, KeyInv, FileKept
<1> QED
  BY <1>1, HomeInvariant, PTL

=============================================================================

--------------------------- MODULE Exporter_proofs ---------------------------
(***************************************************************************)
(* For every set of pages, whatever is computed from one of them, and      *)
(* every threshold: the surfaces of the exporter tell of one scrape, a     *)
(* ready exporter serves a snapshot that is stale by no more than its      *)
(* files took, and no snapshot is ever replaced by an older one, at the    *)
(* exporter or at the gateway.                                             *)
(***************************************************************************)
EXTENDS Exporter, TLAPS

\* The task holds a page when it has been answered, and a snapshot that has waited for
\* the files of its own poll only while it writes them.
Answer == /\ pc = "answered" => scrape \in Pages
          /\ pc = "persist" => backend_state # Null /\ backend_state.age <= MaxStall

\* Nobody has a copy newer than the one that is served.
Newest == backend_state # Null =>
              /\ held # Null => backend_state.age <= held.age
              /\ file # Null => backend_state.age <= file.age

ExporterInv == TypeOK /\ Answer /\ OneScrape /\ ReadyServes /\ Newest

-----------------------------------------------------------------------------
(* Ages and copies.                                                        *)

\* An age that passes its cap stays there (app.py compares with scrape_stale_after_s only).
LEMMA LaterFacts ==
  ASSUME NEW a \in 0 .. AgeCap, NEW b \in 0 .. AgeCap
  PROVE  /\ Later(a) \in 0 .. AgeCap /\ a <= Later(a)
         /\ a <= b => Later(a) <= Later(b)
         /\ a <= b + MaxStall => Later(a) <= Later(b) + MaxStall
         /\ a < MaxStall => Later(a) <= MaxStall
  BY ExporterAssumption DEF Later, AgeCap

\* A copy that grows older stays a copy of its page.
LEMMA OlderFacts ==
  ASSUME NEW c \in Copies \cup {Null}
  PROVE  /\ Older(c) \in Copies \cup {Null}
         /\ Older(c) = Null <=> c = Null
         /\ c # Null => /\ Older(c).page = c.page /\ Older(c).age = Later(c.age)
                        /\ c.age \in 0 .. AgeCap
<1>1. CASE c = Null
  BY <1>1 DEF Older
<1>2. CASE c # Null
  <2>1. c \in Copies
    BY <1>2
  <2>2. PICK p \in Pages, a \in 0 .. AgeCap : c = [page |-> p, age |-> a]
    BY <2>1 DEF Copies
  <2>3. Older(c) = [page |-> p, age |-> Later(a)]
    BY <1>2, <2>2 DEF Older
  <2>4. Later(a) \in 0 .. StaleAfter + MaxStall + 1
    BY LaterFacts DEF AgeCap
  <2>5. Older(c) # Null
    BY <2>3, <2>4, ExporterAssumption
  <2> QED
    BY <1>2, <2>2, <2>3, <2>4, <2>5 DEF Copies, AgeCap
<1> QED
  BY <1>1, <1>2

\* What is made of a scrape is a copy of age 0.
LEMMA StampedFacts ==
  ASSUME NEW p \in Pages
  PROVE  /\ Stamped(p) \in Copies /\ Stamped(p) # Null
         /\ Stamped(p).page = p /\ Stamped(p).age = 0
  BY ExporterAssumption DEF Stamped, Copies, AgeCap

-----------------------------------------------------------------------------
(* The parts of the invariant speak of the served state, of the file and   *)
(* of the gateway's copy.                                                  *)

\* A step that leaves the served state, the file and the gateway's copy keeps them.
LEMMA KeepsServed ==
  ASSUME ExporterInv, UNCHANGED <<served, file, held>>, TypeOK', Answer',
         pc = "persist" <=> pc' = "persist"
  PROVE  ExporterInv'
<1>1. OneScrape' /\ ReadyServes' /\ Newest'
  BY DEF ExporterInv, served, OneScrape, ReadyServes, Newest, Ready
<1> QED
  BY <1>1 DEF ExporterInv

\* An exporter and a gateway that have just started.
LEMMA InitHolds == Init => ExporterInv
<1> SUFFICES ASSUME Init PROVE ExporterInv
  OBVIOUS
<1>1. page \in Pages /\ backend_type \in {"vllm", "sglang"}
  BY DEF Init, PagesOf
<1>2. TypeOK
  BY <1>1, ExporterAssumption DEF Init, TypeOK
<1>3. Answer /\ OneScrape /\ Newest
  BY DEF Init, Answer, OneScrape, Newest
<1>4. ReadyServes
  BY DEF Init, ReadyServes, Ready
<1> QED
  BY <1>2, <1>3, <1>4 DEF ExporterInv

\* Time passes for every copy alike.
LEMMA TickHolds == ExporterInv /\ Tick => ExporterInv'
<1> SUFFICES ASSUME ExporterInv, Tick PROVE ExporterInv'
  OBVIOUS
<1> USE DEF ExporterInv
<1>1. /\ backend_state \in Copies \cup {Null} /\ file \in Copies \cup {Null}
      /\ held \in Copies \cup {Null} /\ last_success \in (0 .. AgeCap) \cup {Null}
  BY DEF TypeOK
<1>2. /\ backend_state' = Older(backend_state) /\ file' = Older(file) /\ held' = Older(held)
      /\ advice' = Older(advice)
      /\ UNCHANGED <<page, backend_type, disk, pc, scrape, gauges, consecutive_failures>>
  BY DEF Tick, backend
<1>3. last_success' \in (0 .. AgeCap) \cup {Null}
  BY <1>1, LaterFacts DEF Tick
<1>4. TypeOK'
  BY <1>1, <1>2, <1>3, OlderFacts DEF TypeOK
<1>5. Answer'
  <2>1. pc' = "answered" => scrape' \in Pages
    BY <1>2 DEF Answer
  <2>2. ASSUME pc' = "persist" PROVE backend_state' # Null /\ backend_state'.age <= MaxStall
    <3>1. pc = "persist" /\ backend_state # Null /\ backend_state.age < MaxStall
      BY <2>2, <1>2 DEF Answer, Tick
    <3> QED
      BY <3>1, <1>1, <1>2, OlderFacts, LaterFacts
  <2> QED
    BY <2>1, <2>2 DEF Answer
<1>6. OneScrape'
  <2>1. ASSUME backend_state' # Null PROVE gauges' = written[backend_state'.page]
    BY <2>1, <1>1, <1>2, OlderFacts DEF OneScrape
  <2>2. ASSUME advice' # Null
        PROVE  /\ backend_state' # Null /\ (pc' # "persist" => consecutive_failures' = 0)
               /\ advice' = [codes |-> advised[backend_state'.page], age |-> backend_state'.age]
    <3>1. advice # Null
      BY <2>2, <1>2 DEF Older
    <3>2. /\ backend_state # Null /\ (pc # "persist" => consecutive_failures = 0)
          /\ advice = [codes |-> advised[backend_state.page], age |-> backend_state.age]
      BY <3>1 DEF OneScrape
    <3>3. advice' = [codes |-> advised[backend_state.page], age |-> Later(backend_state.age)]
      BY <3>1, <3>2, <1>2 DEF Older
    <3>4. /\ backend_state' # Null /\ backend_state'.page = backend_state.page
          /\ backend_state'.age = Later(backend_state.age)
      BY <3>2, <1>1, <1>2, OlderFacts
    <3> QED
      BY <1>2, <3>2, <3>3, <3>4
  <2> QED
    BY <2>1, <2>2 DEF OneScrape
<1>7. ReadyServes'
  <2>1. ASSUME last_success' # Null
        PROVE  backend_state' # Null /\ backend_state'.age <= last_success' + MaxStall
    <3>1. last_success # Null /\ last_success' = Later(last_success)
      BY <2>1 DEF Tick
    <3>2. backend_state # Null /\ backend_state.age <= last_success + MaxStall
      BY <3>1 DEF ReadyServes
    <3> QED
      BY <1>1, <1>2, <3>1, <3>2, OlderFacts, LaterFacts
  <2>2. ASSUME Ready' PROVE backend_state'.age <= StaleAfter + MaxStall
    <3>1. last_success' # Null /\ last_success' <= StaleAfter
      BY <2>2 DEF Ready
    <3>2. backend_state'.age \in 0 .. AgeCap
      BY <2>1, <3>1, <1>4 DEF TypeOK, Copies
    <3>3. last_success' \in 0 .. AgeCap
      BY <3>1, <1>3
    <3> QED
      BY <2>1, <3>1, <3>2, <3>3, ExporterAssumption DEF AgeCap
  <2> QED
    BY <2>1, <2>2 DEF ReadyServes
<1>8. Newest'
  BY <1>1, <1>2, OlderFacts, LaterFacts DEF Newest
<1> QED
  BY <1>4, <1>5, <1>6, <1>7, <1>8

\* A failure is counted, takes the advice back and leaves the last success.
LEMMA FailedFacts ==
  ASSUME TypeOK, Failed
  PROVE  /\ consecutive_failures' \in 0 .. FailuresNotReady /\ scrape' = Null
         /\ pc' = "sleep" /\ advice' = Null /\ last_success' = last_success
  BY ExporterAssumption DEF TypeOK, Failed

\* A scrape that fails leaves the snapshot and takes the advice back.
LEMMA CollectFailsHolds == ExporterInv /\ CollectFails => ExporterInv'
<1> SUFFICES ASSUME ExporterInv, CollectFails PROVE ExporterInv'
  OBVIOUS
<1> USE DEF ExporterInv
<1>1. /\ consecutive_failures' \in 0 .. FailuresNotReady /\ scrape' = Null
      /\ pc' = "sleep" /\ advice' = Null /\ last_success' = last_success
      /\ UNCHANGED <<page, backend_type, disk, backend_state, gauges, file, held>>
  BY FailedFacts DEF CollectFails, backend
<1>2. TypeOK' /\ Answer'
  BY <1>1 DEF TypeOK, Answer
<1>3. OneScrape' /\ Newest'
  BY <1>1 DEF OneScrape, Newest
<1>4. ReadyServes'
  <2>1. last_success' # Null => backend_state' # Null /\ backend_state'.age <= last_success' + MaxStall
    BY <1>1 DEF ReadyServes
  <2>2. ASSUME Ready' PROVE backend_state'.age <= StaleAfter + MaxStall
    <3>1. last_success' # Null /\ last_success' <= StaleAfter
      BY <2>2 DEF Ready
    <3>2. last_success' \in 0 .. AgeCap /\ backend_state'.age \in 0 .. AgeCap
      BY <2>1, <3>1, <1>2 DEF TypeOK, Copies
    <3> QED
      BY <2>1, <3>1, <3>2, ExporterAssumption DEF AgeCap
  <2> QED
    BY <2>1, <2>2 DEF ReadyServes
<1> QED
  BY <1>2, <1>3, <1>4

\* Publishing renews the gauges, the snapshot and the advice, with one stamp.
LEMMA PublishHolds == ExporterInv /\ Publish => ExporterInv'
<1> SUFFICES ASSUME ExporterInv, Publish PROVE ExporterInv'
  OBVIOUS
<1> USE DEF ExporterInv
<1>1. /\ scrape \in Pages /\ gauges' = written[scrape]
      /\ backend_state' \in Copies /\ backend_state' # Null
      /\ backend_state'.page = scrape /\ backend_state'.age = 0
  BY StampedFacts DEF Publish, Answer
<1>2. /\ advice' = [codes |-> advised[scrape], age |-> 0] /\ pc' = "persist" /\ scrape' = Null
      /\ UNCHANGED <<page, backend_type, disk, last_success, consecutive_failures, file, held>>
  BY DEF Publish, backend
<1>3. TypeOK' /\ Answer'
  BY <1>1, <1>2, ExporterAssumption DEF TypeOK, Answer
<1>4. OneScrape'
  BY <1>1, <1>2 DEF OneScrape
<1>5. ReadyServes'
  <2>1. last_success' # Null => last_success' \in 0 .. AgeCap
    BY <1>3 DEF TypeOK
  <2> QED
    BY <2>1, <1>1, ExporterAssumption DEF ReadyServes, AgeCap
<1>6. Newest'
  <2>1. /\ held' # Null => held'.age \in 0 .. AgeCap
        /\ file' # Null => file'.age \in 0 .. AgeCap
    BY <1>3 DEF TypeOK, Copies
  <2> QED
    BY <2>1, <1>1 DEF Newest
<1> QED
  BY <1>3, <1>4, <1>5, <1>6

\* The task that writes its files has a snapshot no older than they take.
LEMMA PersistFacts ==
  ASSUME ExporterInv, pc = "persist"
  PROVE  /\ backend_state \in Copies /\ backend_state # Null
         /\ backend_state.age \in 0 .. AgeCap /\ backend_state.age <= MaxStall
<1>1. backend_state \in Copies \cup {Null} /\ backend_state # Null /\ backend_state.age <= MaxStall
  BY DEF ExporterInv, TypeOK, Answer
<1> QED
  BY <1>1 DEF Copies

\* A poll that succeeds stamps its success behind the files.
LEMMA ScrapedHolds == ExporterInv /\ Scraped => ExporterInv'
<1> SUFFICES ASSUME ExporterInv, Scraped PROVE ExporterInv'
  OBVIOUS
<1> USE DEF ExporterInv
<1>1. /\ backend_state \in Copies /\ backend_state # Null
      /\ backend_state.age \in 0 .. AgeCap /\ backend_state.age <= MaxStall
  BY PersistFacts DEF Scraped
<1>2. /\ file' = backend_state /\ last_success' = 0 /\ consecutive_failures' = 0
      /\ pc' = "sleep"
      /\ UNCHANGED <<page, backend_type, disk, scrape, backend_state, gauges, advice, held>>
  BY DEF Scraped, backend
<1>4. TypeOK' /\ Answer'
  BY <1>1, <1>2, ExporterAssumption DEF TypeOK, Answer, AgeCap
<1>5. OneScrape'
  BY <1>2 DEF OneScrape
<1>6. ReadyServes'
  BY <1>1, <1>2, ExporterAssumption DEF ReadyServes, AgeCap
<1>7. Newest'
  BY <1>1, <1>2 DEF Newest
<1> QED
  BY <1>4, <1>5, <1>6, <1>7

\* A poll whose file cannot be written keeps its snapshot, and is a failure.
LEMMA PersistFailsHolds == ExporterInv /\ PersistFails => ExporterInv'
<1> SUFFICES ASSUME ExporterInv, PersistFails PROVE ExporterInv'
  OBVIOUS
<1> USE DEF ExporterInv
<1>1. /\ backend_state \in Copies /\ backend_state # Null
      /\ backend_state.age \in 0 .. AgeCap /\ backend_state.age <= MaxStall
  BY PersistFacts DEF PersistFails
<1>2. /\ consecutive_failures' \in 0 .. FailuresNotReady /\ scrape' = Null
      /\ pc' = "sleep" /\ advice' = Null /\ last_success' = last_success
      /\ UNCHANGED <<page, backend_type, disk, backend_state, gauges, held>>
  BY FailedFacts DEF PersistFails, backend
<1>3. file' \in {file, Null, backend_state}
  BY DEF PersistFails
<1>4. TypeOK' /\ Answer'
  BY <1>1, <1>2, <1>3 DEF TypeOK, Answer
<1>5. OneScrape'
  BY <1>2 DEF OneScrape
<1>6. last_success' # Null => last_success' \in 0 .. AgeCap
  BY <1>4 DEF TypeOK
<1>7. ReadyServes'
  BY <1>1, <1>2, <1>6, ExporterAssumption DEF ReadyServes, AgeCap
<1>8. Newest'
  BY <1>1, <1>2, <1>3 DEF Newest
<1> QED
  BY <1>4, <1>5, <1>7, <1>8

\* A restart forgets what was served, never a copy that left.
LEMMA ExporterRestartsHolds == ExporterInv /\ ExporterRestarts => ExporterInv'
<1> SUFFICES ASSUME ExporterInv, ExporterRestarts PROVE ExporterInv'
  OBVIOUS
<1>1. /\ pc' = "sleep" /\ scrape' = Null /\ backend_state' = Null /\ advice' = Null
      /\ last_success' = Null /\ consecutive_failures' = 0
      /\ UNCHANGED <<page, backend_type, disk, held>>
  BY DEF ExporterRestarts, backend
<1>5. file' \in Copies \cup {Null}
  <2>1. file \in Copies \cup {Null} /\ backend_state \in Copies \cup {Null}
    BY DEF ExporterInv, TypeOK
  <2> QED
    BY <2>1 DEF ExporterRestarts
<1>2. TypeOK' /\ Answer'
  BY <1>1, <1>5, ExporterAssumption DEF ExporterInv, TypeOK, Answer
<1>3. OneScrape' /\ Newest'
  BY <1>1 DEF OneScrape, Newest
<1>4. ReadyServes'
  BY <1>1 DEF ReadyServes, Ready
<1> QED
  BY <1>2, <1>3, <1>4 DEF ExporterInv

\* A gateway takes the copy that is served, or one from the file, or starts without.
LEMMA HeldHolds ==
  ASSUME ExporterInv, GatewayPolls \/ GatewayRestarts
  PROVE  ExporterInv'
<1> USE DEF ExporterInv
<1>1. UNCHANGED <<page, backend_type, disk, pc, scrape, served, file>>
  BY DEF GatewayPolls, GatewayRestarts, backend
<1>2. held' \in {Null, file, backend_state}
  BY DEF GatewayPolls, GatewayRestarts
<1>3. TypeOK' /\ Answer'
  BY <1>1, <1>2 DEF TypeOK, Answer, served
<1>4. OneScrape' /\ ReadyServes'
  BY <1>1 DEF served, OneScrape, ReadyServes, Ready
<1>5. Newest'
  <2>1. backend_state # Null => backend_state.age \in 0 .. AgeCap
    BY DEF TypeOK, Copies
  <2> QED
    BY <2>1, <1>1, <1>2 DEF served, Newest
<1> QED
  BY <1>3, <1>4, <1>5

-----------------------------------------------------------------------------
\* Every step preserves the invariant.
LEMMA NextHolds == ExporterInv /\ [Next]_vars => ExporterInv'
<1> SUFFICES ASSUME ExporterInv, [Next]_vars PROVE ExporterInv'
  OBVIOUS
<1>1. CASE BackendChanges
  <2>1. TypeOK' /\ Answer' /\ UNCHANGED <<served, file, held>> /\ (pc = "persist" <=> pc' = "persist")
    BY <1>1 DEF ExporterInv, BackendChanges, PagesOf, TypeOK, Answer, served
  <2> QED
    BY <2>1, KeepsServed
<1>2. CASE DiskChanges
  <2>1. TypeOK' /\ Answer' /\ UNCHANGED <<served, file, held>> /\ (pc = "persist" <=> pc' = "persist")
    BY <1>2 DEF ExporterInv, DiskChanges, TypeOK, Answer, served, backend
  <2> QED
    BY <2>1, KeepsServed
<1>3. CASE Tick
  BY <1>3, TickHolds
<1>4. CASE Ask
  <2>1. TypeOK' /\ Answer' /\ UNCHANGED <<served, file, held>> /\ (pc = "persist" <=> pc' = "persist")
    BY <1>4 DEF ExporterInv, Ask, TypeOK, Answer, served, backend
  <2> QED
    BY <2>1, KeepsServed
<1>5. CASE Answered
  <2>1. TypeOK' /\ Answer' /\ UNCHANGED <<served, file, held>> /\ (pc = "persist" <=> pc' = "persist")
    BY <1>5 DEF ExporterInv, Answered, TypeOK, Answer, served, backend
  <2> QED
    BY <2>1, KeepsServed
<1>6. CASE CollectFails
  BY <1>6, CollectFailsHolds
<1>12. CASE Publish
  BY <1>12, PublishHolds
<1>7. CASE Scraped
  BY <1>7, ScrapedHolds
<1>8. CASE PersistFails
  BY <1>8, PersistFailsHolds
<1>9. CASE ExporterRestarts
  BY <1>9, ExporterRestartsHolds
<1>10. CASE GatewayPolls \/ GatewayRestarts
  BY <1>10, HeldHolds
<1>11. CASE UNCHANGED vars
  <2>1. TypeOK' /\ Answer' /\ UNCHANGED <<served, file, held>> /\ (pc = "persist" <=> pc' = "persist")
    BY <1>11 DEF ExporterInv, vars, TypeOK, Answer, served, backend
  <2> QED
    BY <2>1, KeepsServed
<1> QED
  BY <1>1, <1>2, <1>3, <1>4, <1>5, <1>6, <1>7, <1>8, <1>9, <1>10, <1>11, <1>12 DEF Next

\* The inductive invariant of the exporter and of the copies that leave it.
THEOREM ExporterHolds == Spec => []ExporterInv
<1> QED
  BY InitHolds, NextHolds, PTL DEF Spec

\* Gauges, snapshot and advice always tell of one scrape (app.py poll_loop).
THEOREM SurfacesAgree == Spec => []OneScrape
<1>1. ExporterInv => OneScrape
  BY DEF ExporterInv
<1> QED
  BY <1>1, ExporterHolds, PTL

\* A ready exporter always serves a snapshot that is stale by no more than the files of
\* one poll took, behind its stamp and before that of the success (app.py readyz, poll_loop).
THEOREM ReadyIsFresh == Spec => []ReadyServes
<1>1. ExporterInv => ReadyServes
  BY DEF ExporterInv
<1> QED
  BY <1>1, ExporterHolds, PTL

\* Only a restart takes a snapshot back, at the exporter or at the gateway.
LEMMA StepNeverBack ==
  ASSUME ExporterInv, Next
  PROVE  /\ ExporterRestarts \/ NotOlder(backend_state, backend_state')
         /\ GatewayRestarts \/ NotOlder(held, held')
<1>1. /\ backend_state \in Copies \cup {Null} /\ held \in Copies \cup {Null}
      /\ backend_state # Null => backend_state.age \in 0 .. AgeCap
      /\ held # Null => held.age \in 0 .. AgeCap
  BY DEF ExporterInv, TypeOK, Copies
<1>2. CASE BackendChanges \/ DiskChanges \/ Ask \/ Answered \/ CollectFails \/ Scraped \/ PersistFails
  <2>1. UNCHANGED <<backend_state, held>>
    BY <1>2 DEF BackendChanges, DiskChanges, Ask, Answered, CollectFails, Scraped, PersistFails, served
  <2> QED
    BY <2>1, <1>1 DEF NotOlder
<1>3. CASE Tick
  BY <1>1, <1>3, OlderFacts DEF Tick, NotOlder
<1>4. CASE Publish
  <2>1. held' = held /\ backend_state' = Stamped(scrape) /\ scrape \in Pages
    BY <1>4 DEF Publish, ExporterInv, Answer
  <2>2. backend_state' # Null /\ backend_state'.age = 0
    BY <2>1, StampedFacts
  <2> QED
    BY <2>1, <2>2, <1>1 DEF NotOlder
<1>5. CASE ExporterRestarts
  BY <1>1, <1>5 DEF ExporterRestarts, NotOlder
<1>6. CASE GatewayPolls
  <2>1. backend_state # Null /\ held' = backend_state /\ backend_state' = backend_state
    BY <1>6 DEF GatewayPolls, served
  <2>2. held # Null => backend_state.age <= held.age
    BY <2>1 DEF ExporterInv, Newest
  <2> QED
    BY <2>1, <2>2, <1>1 DEF NotOlder
<1>7. CASE GatewayRestarts
  <2>1. backend_state' = backend_state
    BY <1>7 DEF GatewayRestarts, served
  <2> QED
    BY <2>1, <1>1, <1>7 DEF NotOlder
<1> QED
  BY <1>2, <1>3, <1>4, <1>5, <1>6, <1>7 DEF Next

\* Nothing but a restart leaves the endpoint or the gateway with an older snapshot than
\* before (app.py:68-69, cmd/gateway/main.go pollBackendStateOnce).
THEOREM SnapshotsNeverBack == Spec => NeverBack
<1>1. ExporterInv /\ [Next]_vars =>
        [ /\ ExporterRestarts \/ NotOlder(backend_state, backend_state')
          /\ GatewayRestarts \/ NotOlder(held, held') ]_vars
  BY StepNeverBack
<1> QED
  BY <1>1, ExporterHolds, PTL DEF Spec, NeverBack
=============================================================================

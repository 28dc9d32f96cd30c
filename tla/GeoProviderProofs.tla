------------------------- MODULE GeoProviderProofs -------------------------
(***************************************************************************)
(* Loads of GeoIP databases that overlap in any way, over any directory    *)
(* and with any number of lookups.                                         *)
(***************************************************************************)
EXTENDS GeoProvider, SequenceTheorems, WellFoundedInduction, TLAPS

(* What a loader has at each of its steps.                                 *)
Shape(l) ==
    /\ at[l].pc \in {"download", "open"} => at[l].todo # {}
    /\ at[l].pc \in {"store", "take", "fill"} => at[l].slot # <<>>
    /\ at[l].pc = "store" => at[l].got \in Numbers
    /\ at[l].pc = "gone" => at[l] = Gone
    /\ at[Main].pc # "idle"
    /\ l = Downloader /\ Downloads = {} => at[l].pc = "gone"

TypeInv == TypeOK /\ \A l \in Loaders : Shape(l)

(* A set of numbers has a least one: the CHOOSE of NextFile finds a file.  *)
LEMMA LeastNumber ==
    ASSUME NEW T, T \subseteq Nat, T # {}
    PROVE  \E f \in T : \A g \in T : f <= g
<1> DEFINE R == OpToRel(<, Nat)
<1>1. \E x \in T : \A y \in T : ~(<<y, x>> \in R)
  BY WFMin, NatLessThanWellFounded
<1>2. \A x, y \in Nat : y < x => <<y, x>> \in R
  BY DEF OpToRel
<1> HIDE DEF R
<1>3. \A x, y \in T : ~(y < x) => x <= y
  OBVIOUS
<1> QED BY <1>1, <1>2, <1>3

LEMMA NextFileThere ==
    ASSUME TypeInv, NEW l \in Loaders, at[l].pc \in {"download", "open"}
    PROVE  NextFile(l) \in at[l].todo /\ NextFile(l) \in Files /\ at[l].todo \subseteq Files
<1>1. at[l].todo \subseteq Files /\ at[l].todo # {}
  BY DEF TypeInv, TypeOK, Progress, Shape
<1>2. \E f \in at[l].todo : \A g \in at[l].todo : f <= g
  BY <1>1, LeastNumber, ProviderAssumption
<1> QED BY <1>1, <1>2 DEF NextFile

LEMMA FixedProgress ==
    /\ Idle \in Progress /\ Gone \in Progress /\ SlotOrder \in Seq(Slots) /\ SlotOrder # <<>>
    /\ Idle # Gone /\ Idle.pc = "idle" /\ Gone.pc = "gone"
<1>1. NoSlots \in [Slots -> Numbers \cup {Nil}]
  BY DEF NoSlots
<1>2. <<>> \in Seq(Slots)
  BY EmptySeq
<1>3. Idle \in Progress /\ Idle.pc = "idle"
  BY <1>1, <1>2 DEF Idle, Progress, LoadPC
<1>4. Gone \in Progress /\ Gone.pc = "gone"
  BY <1>1, <1>2 DEF Gone, Idle, Progress, LoadPC
<1>5. SlotOrder \in Seq(Slots) /\ SlotOrder # <<>>
  BY DEF SlotOrder, Slots
<1>6. Idle # Gone
  BY <1>3, <1>4
<1> QED BY <1>3, <1>4, <1>5, <1>6

\* The progress of a loader at step pc, where the rest is as when idle.
LEMMA FreshProgress ==
    ASSUME NEW pc \in LoadPC, NEW todo \in SUBSET Files, NEW slot \in Seq(Slots)
    PROVE  /\ [Idle EXCEPT !.pc = pc] \in Progress
           /\ [Idle EXCEPT !.pc = pc, !.todo = todo] \in Progress
           /\ [Idle EXCEPT !.pc = pc, !.slot = slot] \in Progress
<1>1. Idle \in [pc : LoadPC, old : [Slots -> Numbers \cup {Nil}], todo : SUBSET Files,
                got : Numbers \cup {Nil}, slot : Seq(Slots)]
  BY FixedProgress DEF Progress
<1> QED BY <1>1 DEF Progress

(* A loader goes on: nothing else changes but as the types have it.        *)
Tables ==
    /\ files \in [Files -> Nat]
    /\ slots \in [Slots -> Numbers \cup {Nil}]
    /\ reader \in [Numbers -> Nat]
    /\ using \in [Lookups -> Numbers \cup {Nil}]
    /\ faults \in 0 .. MaxFaults

\* The progress p keeps to Shape, of a loader that is not done.
GoesOn(p) ==
    /\ p \in Progress
    /\ p.pc \notin {"idle", "gone"}
    /\ p.pc \in {"download", "open"} => p.todo # {}
    /\ p.pc \in {"store", "take", "fill"} => p.slot # <<>>
    /\ p.pc = "store" => p.got \in Numbers

LEMMA GoesOnTyped ==
    ASSUME TypeInv, Tables', NEW l \in Loaders, at[l].pc # "gone", NEW p, GoesOn(p), Go(l, p),
           phase' = phase
    PROVE  TypeInv'
<1>1. at' = [at EXCEPT ![l] = p] /\ at \in [Loaders -> Progress]
  BY DEF Go, TypeInv, TypeOK
<1>2. at' \in [Loaders -> Progress] /\ at'[l] = p /\ \A k \in Loaders \ {l} : at'[k] = at[k]
  BY <1>1 DEF GoesOn
<1>3. p.pc # "gone" /\ p.pc # "idle" /\ p # Gone /\ at[l] # Gone
  BY FixedProgress DEF GoesOn
<1>4. ASSUME NEW k \in Loaders PROVE Shape(k)'
  <2>1. at'[Main].pc # "idle"
    BY <1>2, <1>3 DEF TypeInv, Shape, Loaders
  <2>2. CASE k = l
    BY <1>2, <1>3, <2>1, <2>2 DEF Shape, GoesOn, TypeInv
  <2>3. CASE k # l
    BY <1>2, <2>1, <2>3 DEF Shape, TypeInv
  <2> QED BY <2>2, <2>3
<1>5. phase' = "starting" <=> at'[Main] # Gone
  <2>1. Main \in Loaders
    BY DEF Loaders
  <2> QED BY <1>2, <1>3, <2>1 DEF TypeInv, TypeOK
<1>6. phase' # "running" => at'[Reloader] = Gone /\ at'[Downloader] = Gone
  <2>1. Reloader \in Loaders /\ Downloader \in Loaders
    BY DEF Loaders
  <2> QED BY <1>2, <1>3, <2>1 DEF TypeInv, TypeOK
<1> QED BY <1>2, <1>4, <1>5, <1>6 DEF TypeInv, TypeOK, Tables

\* Loader l goes from one step to another by p, the tables left typed.
Typed(l) == Tables' /\ phase' = phase /\ \E p : GoesOn(p) /\ Go(l, p)

LEMMA OpeningTyped ==
    ASSUME NEW todo \in SUBSET Files
    PROVE  GoesOn(Opening(todo))
<1>1. CASE todo = {}
  <2>1. Opening(todo) = [Idle EXCEPT !.pc = "check", !.slot = SlotOrder]
    BY <1>1 DEF Opening
  <2>2. Opening(todo) \in Progress
    <3>1. "check" \in LoadPC /\ todo \in SUBSET Files /\ SlotOrder \in Seq(Slots)
      BY FixedProgress DEF LoadPC
    <3>2. [Idle EXCEPT !.pc = "check", !.slot = SlotOrder] \in Progress
      BY <3>1, FreshProgress
    <3> QED BY <2>1, <3>2
  <2>3. Opening(todo).pc = "check"
    BY <2>1 DEF Idle
  <2> QED BY <2>2, <2>3 DEF GoesOn
<1>2. CASE todo # {}
  <2>1. Opening(todo) = [Idle EXCEPT !.pc = "open", !.todo = todo]
    BY <1>2 DEF Opening
  <2>2. Opening(todo) \in Progress
    <3>1. "open" \in LoadPC /\ todo \in SUBSET Files /\ <<>> \in Seq(Slots)
      BY EmptySeq DEF LoadPC
    <3>2. [Idle EXCEPT !.pc = "open", !.todo = todo] \in Progress
      BY <3>1, FreshProgress
    <3> QED BY <2>1, <3>2
  <2>3. Opening(todo).pc = "open" /\ Opening(todo).todo = todo
    BY <2>1 DEF Idle
  <2> QED BY <1>2, <2>2, <2>3 DEF GoesOn
<1> QED BY <1>1, <1>2

LEMMA DownloadTyped ==
    ASSUME NEW todo \in SUBSET Files
    PROVE  GoesOn(AfterDownload(todo))
<1>1. CASE todo = {}
  <2>1. AfterDownload(todo) = [Idle EXCEPT !.pc = "copy"]
    BY <1>1 DEF AfterDownload
  <2>2. AfterDownload(todo) \in Progress
    BY <2>1, FreshProgress, EmptySeq DEF LoadPC
  <2>3. AfterDownload(todo).pc = "copy"
    BY <2>1 DEF Idle
  <2> QED BY <2>2, <2>3 DEF GoesOn
<1>2. CASE todo # {}
  <2>1. AfterDownload(todo) = [Idle EXCEPT !.pc = "download", !.todo = todo]
    BY <1>2 DEF AfterDownload
  <2>2. AfterDownload(todo) \in Progress
    BY <2>1, FreshProgress, EmptySeq DEF LoadPC
  <2>3. AfterDownload(todo).pc = "download" /\ AfterDownload(todo).todo = todo
    BY <2>1 DEF Idle
  <2> QED BY <1>2, <2>2, <2>3 DEF GoesOn
<1> QED BY <1>1, <1>2

LEMMA RestTyped ==
    ASSUME NEW l \in Loaders, TypeInv
    PROVE  /\ at[l] \in Progress
           /\ at[l].slot # <<>> => Tail(at[l].slot) \in Seq(Slots) /\ Head(at[l].slot) \in Slots
<1>1. at[l] \in Progress
  BY DEF TypeInv, TypeOK
<1>2. at[l].slot \in Seq(Slots)
  BY <1>1 DEF Progress
<1> QED BY <1>1, <1>2, HeadTailProperties

LEMMA CloseSteps ==
    ASSUME TypeInv, NEW l \in Loaders, Copy(l) \/ Close(l) \/ List(l)
    PROVE  Typed(l)
<1>1. at[l] \in [pc : LoadPC, old : [Slots -> Numbers \cup {Nil}], todo : SUBSET Files,
                 got : Numbers \cup {Nil}, slot : Seq(Slots)]
  BY RestTyped DEF Progress
<1>2. Tables
  BY DEF TypeInv, TypeOK, Tables
<1>3. CASE Copy(l)
  <2> DEFINE p == [at[l] EXCEPT !.pc = "close", !.old = slots]
  <2>1. p \in Progress /\ p.pc = "close"
    BY <1>1, <1>2 DEF Progress, LoadPC, Tables
  <2>2. Go(l, p) /\ Tables' /\ phase' = phase
    BY <1>2, <1>3 DEF Copy, Tables
  <2> HIDE DEF p
  <2> QED BY <2>1, <2>2 DEF GoesOn, Typed
<1>4. CASE Close(l)
  <2> DEFINE s == SlotOrder[CHOOSE i \in ToClose(l) : \A j \in ToClose(l) : i <= j]
             p == [at[l] EXCEPT !.old[s] = Nil]
  <2>1. /\ At(l, "close") /\ Go(l, p) /\ phase' = phase
        /\ reader' = [reader EXCEPT ![at[l].old[s]] = Closed]
        /\ UNCHANGED <<files, slots, using, faults>>
    BY <1>4 DEF Close
  <2> HIDE DEF s
  <2>2. p \in Progress /\ p.pc = at[l].pc
    BY <1>1 DEF Progress
  <2>3. Tables'
    BY <1>2, <2>1 DEF Tables, Closed
  <2> HIDE DEF p
  <2> QED BY <2>1, <2>2, <2>3 DEF GoesOn, Typed, At
<1>5. CASE List(l)
  <2>1. Tables' /\ phase' = phase
    BY <1>2, <1>5 DEF List, Tables
  <2>2. Go(l, Opening({f \in Files : files[f] > 0}))
    BY <1>5 DEF List
  <2> QED BY <2>1, <2>2, OpeningTyped DEF Typed
<1> QED BY <1>3, <1>4, <1>5

LEMMA DownloadSteps ==
    ASSUME TypeInv, NEW l \in Loaders, Download(l) \/ DownloadFails(l)
    PROVE  Typed(l)
<1>1. Tables /\ NextFile(l) \in Files /\ at[l].todo \subseteq Files
  BY NextFileThere DEF TypeInv, TypeOK, Tables, Download, DownloadFails, At
<1>2. GoesOn(AfterDownload(at[l].todo \ {NextFile(l)}))
  BY <1>1, DownloadTyped
<1>3. Go(l, AfterDownload(at[l].todo \ {NextFile(l)})) /\ phase' = phase
  BY DEF Download, DownloadFails
<1>4. Tables'
  <2>1. CASE Download(l)
    <3>1. files' = files \/ files' = [files EXCEPT ![NextFile(l)] = @ + 1]
      BY <2>1 DEF Download
    <3>2. files' \in [Files -> Nat]
      BY <1>1, <3>1 DEF Tables
    <3> QED BY <1>1, <2>1, <3>2 DEF Tables, Download
  <2>2. CASE DownloadFails(l)
    BY <1>1, <2>2, ProviderAssumption DEF Tables, DownloadFails
  <2> QED BY <2>1, <2>2
<1> QED BY <1>2, <1>3, <1>4 DEF Typed

LEMMA OpenSteps ==
    ASSUME TypeInv, NEW l \in Loaders, Open(l) \/ OpenFails(l)
    PROVE  Typed(l)
<1>1. /\ Tables /\ NextFile(l) \in Files /\ at[l].todo \subseteq Files
      /\ SlotsOf[NextFile(l)] \in Seq(Slots) /\ files[NextFile(l)] \in Nat
  BY NextFileThere, ProviderAssumption DEF TypeInv, TypeOK, Tables, Open, OpenFails, At
<1>2. GoesOn(Opening(at[l].todo \ {NextFile(l)}))
  BY <1>1, OpeningTyped
<1>3. CASE OpenFails(l)
  <2>1. Tables'
    BY <1>1, <1>3, ProviderAssumption DEF Tables, OpenFails
  <2> QED BY <1>2, <1>3, <2>1 DEF Typed, OpenFails
<1>4. CASE Open(l)
  <2> DEFINE f == NextFile(l)
             n == CHOOSE m \in Numbers \ Referred : TRUE
             p == [at[l] EXCEPT !.pc = "store", !.todo = @ \ {f}, !.got = n,
                                !.slot = SlotsOf[f]]
  <2>1. n \in Numbers
    BY <1>4 DEF Open
  <2>2. Tables'
    BY <1>1, <1>4 DEF Open, Tables, Closed
  <2>3. \/ Go(l, Opening(at[l].todo \ {f}))
        \/ SlotsOf[f] # <<>> /\ Go(l, p)
    BY <1>4 DEF Open
  <2> HIDE DEF f, n
  <2>4. p \in Progress /\ p.pc = "store" /\ p.got = n /\ p.slot = SlotsOf[f]
    <3>1. at[l] \in [pc : LoadPC, old : [Slots -> Numbers \cup {Nil}], todo : SUBSET Files,
                     got : Numbers \cup {Nil}, slot : Seq(Slots)]
      BY RestTyped DEF Progress
    <3> QED BY <1>1, <2>1, <3>1 DEF Progress, LoadPC, f
  <2> HIDE DEF p
  <2>5. SlotsOf[f] # <<>> => GoesOn(p)
    BY <2>1, <2>4 DEF GoesOn
  <2> QED BY <1>2, <1>4, <2>2, <2>3, <2>5 DEF Typed, Open, f
<1> QED BY <1>3, <1>4

LEMMA FillSteps ==
    ASSUME TypeInv, NEW l \in Loaders, Store(l) \/ Check(l) \/ Take(l) \/ Fill(l)
    PROVE  Typed(l)
<1> DEFINE h == Head(at[l].slot)
<1>1. at[l] \in [pc : LoadPC, old : [Slots -> Numbers \cup {Nil}], todo : SUBSET Files,
                 got : Numbers \cup {Nil}, slot : Seq(Slots)]
  BY RestTyped DEF Progress
<1>2. Tables
  BY DEF TypeInv, TypeOK, Tables
<1>3. at[l].slot # <<>>
  BY DEF TypeInv, Shape, Store, Check, Take, Fill, At
<1>4. Tail(at[l].slot) \in Seq(Slots) /\ h \in Slots
  BY <1>3, RestTyped
<1>5. phase' = phase
  BY DEF Store, Check, Take, Fill
<1>6. CASE Store(l)
  <2>1. Tables'
    BY <1>1, <1>2, <1>4, <1>6 DEF Store, Tables
  <2>2. CASE Len(at[l].slot) = 1
    <3>1. GoesOn(AfterStore(l))
      BY <1>1, <2>2, OpeningTyped DEF AfterStore
    <3> QED BY <1>5, <1>6, <2>1, <3>1 DEF Store, Typed
  <2>3. CASE Len(at[l].slot) # 1
    <3> DEFINE p == [at[l] EXCEPT !.slot = Tail(@)]
    <3>1. Tail(at[l].slot) # <<>>
      <4>1. Len(at[l].slot) \in Nat /\ Len(at[l].slot) # 0
        BY <1>1, <1>3, EmptySeq, LenProperties
      <4>2. Len(Tail(at[l].slot)) = Len(at[l].slot) - 1
        BY <1>1, <1>3, HeadTailProperties
      <4>3. Len(Tail(at[l].slot)) # 0
        BY <2>3, <4>1, <4>2
      <4>4. Len(<<>>) = 0
        OBVIOUS
      <4> QED BY <4>3, <4>4
    <3>2. /\ p \in Progress /\ p.pc = at[l].pc /\ p.got = at[l].got /\ p.todo = at[l].todo
          /\ p.slot = Tail(at[l].slot)
      BY <1>1, <1>4 DEF Progress
    <3>3. Go(l, p) /\ At(l, "store")
      BY <1>6, <2>3 DEF Store, AfterStore
    <3> HIDE DEF p
    <3>4. GoesOn(p)
      BY <3>1, <3>2, <3>3 DEF GoesOn, At, TypeInv, Shape
    <3> QED BY <1>5, <2>1, <3>3, <3>4 DEF Typed
  <2> QED BY <2>2, <2>3
<1>7. CASE Check(l)
  <2> DEFINE p == [at[l] EXCEPT !.pc = "take"]
             q == [at[l] EXCEPT !.slot = Tail(@)]
  <2>1. /\ p \in Progress /\ p.pc = "take" /\ p.slot = at[l].slot
        /\ q \in Progress /\ q.pc = at[l].pc
    BY <1>1, <1>4 DEF Progress, LoadPC
  <2>2. (Go(l, p) \/ Go(l, q)) /\ At(l, "check") /\ Tables'
    BY <1>2, <1>7 DEF Check, Tables
  <2> HIDE DEF p, q
  <2>3. GoesOn(p) /\ GoesOn(q)
    BY <1>3, <2>1, <2>2 DEF GoesOn, At
  <2> QED BY <1>5, <2>2, <2>3 DEF Typed
<1>8. CASE Take(l)
  <2> DEFINE p == [at[l] EXCEPT !.pc = "fill", !.got = slots[Sibling(h)]]
  <2>1. slots[Sibling(h)] \in Numbers \cup {Nil}
    BY <1>2, <1>4 DEF Tables, Sibling, Slots
  <2>2. p \in Progress /\ p.pc = "fill" /\ p.slot = at[l].slot
    BY <1>1, <2>1 DEF Progress, LoadPC
  <2>3. Go(l, p) /\ Tables'
    BY <1>2, <1>8 DEF Take, Tables
  <2> HIDE DEF p
  <2>4. GoesOn(p)
    BY <1>3, <2>2 DEF GoesOn
  <2> QED BY <1>5, <2>3, <2>4 DEF Typed
<1>9. CASE Fill(l)
  <2> DEFINE p == [at[l] EXCEPT !.pc = "check", !.got = Nil, !.slot = Tail(@)]
  <2>1. p \in Progress /\ p.pc = "check"
    BY <1>1, <1>4 DEF Progress, LoadPC
  <2>2. Go(l, p) /\ Tables'
    BY <1>1, <1>2, <1>9 DEF Fill, Tables
  <2> HIDE DEF p
  <2>3. GoesOn(p)
    BY <2>1 DEF GoesOn
  <2> QED BY <1>5, <2>2, <2>3 DEF Typed
<1> QED BY <1>6, <1>7, <1>8, <1>9

(* A load ends, of another loader or the first of all.                     *)
LEMMA EndLoadTyped ==
    ASSUME TypeInv, NEW l \in Loaders, at[l].pc \notin {"idle", "gone"}, EndLoad(l), Tables'
    PROVE  TypeInv'
<1>1. at \in [Loaders -> Progress] /\ Main \in Loaders /\ Reloader \in Loaders
      /\ Downloader \in Loaders /\ Reloader # Main /\ Downloader # Main
  BY ProviderAssumption DEF TypeInv, TypeOK, Loaders
<1>2. CASE l # Main
  <2>1. at' = [at EXCEPT ![l] = Idle] /\ phase' = phase
    BY <1>2 DEF EndLoad, Go
  <2>2. /\ at' \in [Loaders -> Progress] /\ at'[l] = Idle
        /\ \A k \in Loaders \ {l} : at'[k] = at[k]
    BY <1>1, <2>1, FixedProgress
  <2>3. ASSUME NEW k \in Loaders PROVE Shape(k)'
    <3>1. at'[Main].pc # "idle"
      BY <1>1, <1>2, <2>2 DEF TypeInv, Shape
    <3>2. CASE k = l
      <4>1. ~(l = Downloader /\ Downloads = {})
        BY DEF TypeInv, Shape
      <4> QED BY <2>2, <3>1, <3>2, <4>1, FixedProgress DEF Shape
    <3>3. CASE k # l
      BY <2>2, <3>1, <3>3 DEF Shape, TypeInv
    <3> QED BY <3>2, <3>3
  <2>4. at[l] # Gone
    BY FixedProgress
  <2>5. phase = "running" /\ at'[Main] = at[Main]
    BY <1>1, <1>2, <2>2, <2>4 DEF TypeInv, TypeOK, Loaders
  <2> QED BY <1>1, <2>1, <2>2, <2>3, <2>5 DEF TypeInv, TypeOK, Tables
<1>3. CASE l = Main
  <2>1. phase = "starting"
    BY <1>1, <1>3, FixedProgress DEF TypeInv, TypeOK
  <2>2. at[Reloader] = Gone /\ at[Downloader] = Gone
    BY <2>1 DEF TypeInv, TypeOK
  <2>3. \/ at' = [at EXCEPT ![Main] = Gone] /\ phase' = "noop"
        \/ at' = Timers /\ phase' = "running"
    BY <1>3 DEF EndLoad, Go
  <2>4. /\ at' \in [Loaders -> Progress] /\ at'[Main] = Gone
        /\ \A k \in Loaders : at'[k] \in {Idle, Gone}
        /\ Downloads = {} => at'[Downloader] = Gone
        /\ phase' = "noop" => at'[Reloader] = Gone /\ at'[Downloader] = Gone
    <3>1. CASE at' = [at EXCEPT ![Main] = Gone] /\ phase' = "noop"
      BY <1>1, <2>2, <3>1, FixedProgress DEF Loaders
    <3>2. CASE at' = Timers /\ phase' = "running"
      BY <1>1, <3>2, FixedProgress DEF Timers
    <3> QED BY <2>3, <3>1, <3>2
  <2>5. \A k \in Loaders : Shape(k)'
    BY <2>4, FixedProgress DEF Shape
  <2> QED BY <2>3, <2>4, <2>5 DEF TypeInv, TypeOK, Tables
<1> QED BY <1>2, <1>3

LEMMA EndSteps ==
    ASSUME TypeInv, NEW l \in Loaders, Loaded(l) \/ ListFails(l)
    PROVE  TypeInv'
<1>1. at[l].pc \notin {"idle", "gone"} /\ EndLoad(l)
  BY DEF Loaded, ListFails, At
<1>2. Tables'
  BY ProviderAssumption DEF TypeInv, TypeOK, Tables, Loaded, ListFails
<1> QED BY <1>1, <1>2, EndLoadTyped

(* The timers' loads begin, and end for good, between loads.               *)
LEMMA TickSteps ==
    ASSUME TypeInv, ReloadTick \/ DownloadTick
    PROVE  \E l \in {Reloader, Downloader} : at[l].pc = "idle" /\ Typed(l)
<1>1. Tables'
  BY DEF TypeInv, TypeOK, Tables, ReloadTick, DownloadTick
<1>2. CASE ReloadTick
  <2>1. AfterDownload({}) = [Idle EXCEPT !.pc = "copy"] /\ GoesOn(AfterDownload({}))
    BY DownloadTyped DEF AfterDownload
  <2> QED BY <1>1, <1>2, <2>1 DEF ReloadTick, Typed, At
<1>3. CASE DownloadTick
  <2>1. /\ At(Downloader, "idle") /\ phase' = phase
        /\ Go(Downloader, [Idle EXCEPT !.pc = "download", !.todo = Downloads])
    BY <1>3 DEF DownloadTick
  <2>2. Downloads # {}
    BY <2>1 DEF TypeInv, Shape, At, Loaders
  <2>3. AfterDownload(Downloads) = [Idle EXCEPT !.pc = "download", !.todo = Downloads]
    BY <2>2 DEF AfterDownload
  <2>4. GoesOn(AfterDownload(Downloads))
    BY DownloadTyped, ProviderAssumption
  <2> QED BY <1>1, <2>1, <2>3, <2>4 DEF Typed, At
<1> QED BY <1>2, <1>3

LEMMA StopSteps ==
    ASSUME TypeInv, NEW l \in Loaders, Stop(l)
    PROVE  TypeInv'
<1>1. /\ at \in [Loaders -> Progress] /\ l # Main /\ at' = [at EXCEPT ![l] = Gone]
      /\ at[l].pc = "idle" /\ UNCHANGED <<files, slots, reader, using, phase, faults>>
  BY DEF TypeInv, TypeOK, Stop, Go, At
<1>2. /\ at' \in [Loaders -> Progress] /\ at'[l] = Gone
      /\ \A k \in Loaders \ {l} : at'[k] = at[k]
  BY <1>1, FixedProgress
<1>3. at[l] # Gone /\ Main \in Loaders
  BY <1>1, FixedProgress DEF Loaders
<1>4. phase = "running" /\ at'[Main] = at[Main]
  BY <1>1, <1>2, <1>3 DEF TypeInv, TypeOK, Loaders
<1>5. ASSUME NEW k \in Loaders PROVE Shape(k)'
  <2>1. at'[Main].pc # "idle"
    BY <1>3, <1>4 DEF TypeInv, Shape
  <2>2. CASE k = l
    BY <1>2, <2>1, <2>2, FixedProgress DEF Shape
  <2>3. CASE k # l
    BY <1>2, <2>1, <2>3 DEF Shape, TypeInv
  <2> QED BY <2>2, <2>3
<1>6. /\ phase' = "starting" <=> at'[Main] # Gone
      /\ phase' = "running"
  BY <1>1, <1>4 DEF TypeInv, TypeOK
<1> QED BY <1>1, <1>2, <1>5, <1>6 DEF TypeInv, TypeOK

(* The provider starts, at first and after the process died.               *)
LEMMA StartingTyped ==
    ASSUME NEW fs \in [Files -> Nat], at' = Starting(fs), phase' = "starting", Tables'
    PROVE  TypeInv'
<1>1. /\ Main \in Loaders /\ Reloader \in Loaders /\ Downloader \in Loaders
      /\ Reloader # Main /\ Downloader # Main
  BY ProviderAssumption DEF Loaders
<1>2. PICK p : GoesOn(p) /\ at'[Main] = p
  <2>1. CASE Downloads # {} /\ \A f \in Files : fs[f] = 0
    <3>1. at'[Main] = [Idle EXCEPT !.pc = "download", !.todo = Downloads]
      BY <1>1, <2>1 DEF Starting
    <3>2. AfterDownload(Downloads) = [Idle EXCEPT !.pc = "download", !.todo = Downloads]
      BY <2>1 DEF AfterDownload
    <3> QED BY <3>1, <3>2, DownloadTyped, ProviderAssumption
  <2>2. CASE ~(Downloads # {} /\ \A f \in Files : fs[f] = 0)
    <3>1. at'[Main] = [Idle EXCEPT !.pc = "copy"]
      BY <1>1, <2>2 DEF Starting
    <3>2. AfterDownload({}) = [Idle EXCEPT !.pc = "copy"] /\ GoesOn(AfterDownload({}))
      BY DownloadTyped DEF AfterDownload
    <3> QED BY <3>1, <3>2
  <2> QED BY <2>1, <2>2
<1>3. /\ \A k \in Loaders \ {Main} : at'[k] = Gone
      /\ at' = [k \in Loaders |-> at'[k]]
  BY DEF Starting
<1>4. at' \in [Loaders -> Progress]
  BY <1>2, <1>3, FixedProgress DEF GoesOn
<1>5. ASSUME NEW k \in Loaders PROVE Shape(k)'
  <2>1. CASE k = Main
    BY <1>1, <1>2, <2>1 DEF Shape, GoesOn
  <2>2. CASE k # Main
    BY <1>2, <1>3, <2>2, FixedProgress DEF Shape, GoesOn
  <2> QED BY <2>1, <2>2
<1>6. at'[Main] # Gone
  BY <1>2, FixedProgress DEF GoesOn
<1> QED BY <1>1, <1>3, <1>4, <1>5, <1>6 DEF TypeInv, TypeOK, Tables

LEMMA LookupSteps ==
    ASSUME TypeInv, NEW p \in Lookups, Lookup(p) \/ LookupEnds(p)
    PROVE  TypeInv'
<1>1. using' \in [Lookups -> Numbers \cup {Nil}]
  <2>1. CASE Lookup(p)
    <3>1. PICK s \in Slots : /\ ReaderFor(s) # Nil
                             /\ using' = [using EXCEPT ![p] = ReaderFor(s)]
      BY <2>1 DEF Lookup
    <3>2. Sibling(s) \in Slots
      BY <3>1 DEF Sibling, Slots
    <3>3. ReaderFor(s) \in Numbers \cup {Nil}
      BY <3>1, <3>2 DEF TypeInv, TypeOK, ReaderFor
    <3> QED BY <3>1, <3>3 DEF TypeInv, TypeOK
  <2>2. CASE LookupEnds(p)
    BY <2>2 DEF LookupEnds, TypeInv, TypeOK
  <2> QED BY <2>1, <2>2
<1>2. UNCHANGED <<files, slots, reader, at, phase, faults>>
  BY DEF Lookup, LookupEnds
<1>3. \A l \in Loaders : Shape(l)'
  BY <1>2 DEF TypeInv, Shape
<1> QED BY <1>1, <1>2, <1>3 DEF TypeInv, TypeOK

LEMMA CrashSteps ==
    ASSUME TypeInv, NEW p \in Lookups, Crash(p)
    PROVE  TypeInv'
<1>1. files \in [Files -> Nat] /\ at' = Starting(files) /\ phase' = "starting"
  BY DEF Crash, TypeInv, TypeOK
<1>2. Tables'
  BY DEF Crash, TypeInv, TypeOK, Tables, NoSlots, Closed
<1> QED BY <1>1, <1>2, StartingTyped

LEMMA TypeInvInit == Init => TypeInv
<1> SUFFICES ASSUME Init PROVE TypeInv
  OBVIOUS
<1>1. /\ Main \in Loaders /\ Reloader \in Loaders /\ Downloader \in Loaders
      /\ Reloader # Main /\ Downloader # Main
  BY ProviderAssumption DEF Loaders
<1>2. PICK p : GoesOn(p) /\ at[Main] = p
  <2>1. CASE Downloads # {} /\ \A f \in Files : InitFiles[f] = 0
    <3>1. at[Main] = [Idle EXCEPT !.pc = "download", !.todo = Downloads]
      BY <1>1, <2>1 DEF Starting, Init
    <3>2. AfterDownload(Downloads) = [Idle EXCEPT !.pc = "download", !.todo = Downloads]
      BY <2>1 DEF AfterDownload
    <3> QED BY <3>1, <3>2, DownloadTyped, ProviderAssumption
  <2>2. CASE ~(Downloads # {} /\ \A f \in Files : InitFiles[f] = 0)
    <3>1. at[Main] = [Idle EXCEPT !.pc = "copy"]
      BY <1>1, <2>2 DEF Starting, Init
    <3>2. AfterDownload({}) = [Idle EXCEPT !.pc = "copy"] /\ GoesOn(AfterDownload({}))
      BY DownloadTyped DEF AfterDownload
    <3> QED BY <3>1, <3>2
  <2> QED BY <2>1, <2>2
<1>3. /\ \A k \in Loaders \ {Main} : at[k] = Gone
      /\ at = [k \in Loaders |-> at[k]]
  BY DEF Starting, Init
<1>4. at \in [Loaders -> Progress]
  BY <1>2, <1>3, FixedProgress DEF GoesOn
<1>5. ASSUME NEW k \in Loaders PROVE Shape(k)
  <2>1. CASE k = Main
    BY <1>1, <1>2, <2>1 DEF Shape, GoesOn
  <2>2. CASE k # Main
    BY <1>2, <1>3, <2>2, FixedProgress DEF Shape, GoesOn
  <2> QED BY <2>1, <2>2
<1>6. at[Main] # Gone
  BY <1>2, FixedProgress DEF GoesOn
<1>7. Tables
  BY ProviderAssumption DEF Init, Tables, NoSlots, Closed
<1> QED BY <1>1, <1>3, <1>4, <1>5, <1>6, <1>7 DEF TypeInv, TypeOK, Tables, Init

LEMMA TypeInvStep == TypeInv /\ [Next]_vars => TypeInv'
<1> SUFFICES ASSUME TypeInv, [Next]_vars PROVE TypeInv'
  OBVIOUS
<1>1. ASSUME NEW l \in Loaders, Typed(l), at[l].pc # "gone" PROVE TypeInv'
  BY <1>1, GoesOnTyped DEF Typed
<1>2. CASE ReloadTick \/ DownloadTick
  BY <1>1, <1>2, TickSteps DEF Loaders
<1>3. ASSUME NEW l \in Loaders, Download(l) \/ DownloadFails(l) PROVE TypeInv'
  BY <1>1, <1>3, DownloadSteps DEF Download, DownloadFails, At
<1>4. ASSUME NEW l \in Loaders, Copy(l) \/ Close(l) \/ List(l) PROVE TypeInv'
  BY <1>1, <1>4, CloseSteps DEF Copy, Close, List, At
<1>5. ASSUME NEW l \in Loaders, Open(l) \/ OpenFails(l) PROVE TypeInv'
  BY <1>1, <1>5, OpenSteps DEF Open, OpenFails, At
<1>6. ASSUME NEW l \in Loaders, Store(l) \/ Check(l) \/ Take(l) \/ Fill(l) PROVE TypeInv'
  BY <1>1, <1>6, FillSteps DEF Store, Check, Take, Fill, At
<1>7. ASSUME NEW l \in Loaders, Loaded(l) \/ ListFails(l) PROVE TypeInv'
  BY <1>7, EndSteps
<1>8. ASSUME NEW l \in Loaders, Stop(l) PROVE TypeInv'
  BY <1>8, StopSteps
<1>9. ASSUME NEW p \in Lookups, Lookup(p) \/ LookupEnds(p) \/ Crash(p) PROVE TypeInv'
  BY <1>9, LookupSteps, CrashSteps
<1>10. CASE UNCHANGED vars
  BY <1>10 DEF TypeInv, TypeOK, Shape, vars
<1> QED BY <1>2, <1>3, <1>4, <1>5, <1>6, <1>7, <1>8, <1>9, <1>10 DEF Next, Load

LEMMA TypeInvAlways == Spec => []TypeInv
  BY TypeInvInit, TypeInvStep, PTL DEF Spec

(* Overlapping loads keep the four slots, the readers and their own        *)
(* progress typed, and the timers run only when the first load is done     *)
(* and found a database (geoip.go, NewFromPath).                           *)
THEOREM ProviderTyped == Spec => []TypeOK
  BY TypeInvAlways, PTL DEF TypeInv

-----------------------------------------------------------------------------
(***************************************************************************)
(* A closed reader is replaced: of files that are stored in one slot each, *)
(* and are all there from the start or all downloaded then.                *)
(***************************************************************************)
OneSlotEach == \A f \in Files : Len(SlotsOf[f]) <= 1

WholeDirectory ==
    /\ MaxVersion > 0
    /\ \/ \A f \in Files : InitFiles[f] > 0
       \/ Downloads = Files /\ \A f \in Files : InitFiles[f] = 0

(* A file is there, or the download of the start still comes to it.        *)
FilesThere ==
    \A f \in Files : files[f] > 0 \/ (at[Main].pc = "download" /\ f \in at[Main].todo)

StoresOnce == \A l \in Loaders : at[l].pc = "store" => Len(at[l].slot) = 1

(* The reader loader l opened is open, and none but l refers to it.         *)
Fresh(l) ==
    /\ reader[at[l].got] # Closed
    /\ \A s \in Slots : slots[s] # at[l].got
    /\ \A k \in Loaders : k # l => at[k].got # at[l].got
    /\ \A k \in Loaders : \A s \in Slots : at[k].old[s] # at[l].got

StoresFresh == \A l \in Loaders : at[l].pc = "store" => Fresh(l)

(* A slot with a file of its own has a reader as soon as the first load is *)
(* past it, so a fallback goes elsewhere.                                  *)
OwnSlotsHeld ==
    \A f \in Files, s \in Slots : Stores(f, s) => slots[s] # Nil \/ WillStore(Main, s)

FillsOthers ==
    \A l \in Loaders : at[l].pc \in {"take", "fill"} =>
        \A f \in Files : ~Stores(f, Head(at[l].slot))

ClosedCovered ==
    \A f \in Files, s \in Slots :
        (Stores(f, s) /\ slots[s] # Nil /\ reader[slots[s]] = Closed)
            => \E l \in Loaders : WillStore(l, s)

LoadsInv ==
    FilesThere /\ StoresOnce /\ StoresFresh /\ OwnSlotsHeld /\ FillsOthers /\ ClosedCovered

Unused == phase # "running" => \A p \in Lookups : using[p] = Nil

ClosedInv == TypeInv /\ Unused /\ (faults = 0 => LoadsInv)

(* The timers' loaders go on only after the first load.                    *)
LEMMA MainDone ==
    ASSUME TypeInv, NEW l \in Loaders, l # Main, at[l].pc # "gone"
    PROVE  at[Main] = Gone /\ at[Main].pc = "gone"
<1>1. at[l] # Gone
  BY FixedProgress
<1>2. phase = "running"
  BY <1>1 DEF TypeInv, TypeOK, Loaders
<1> QED BY <1>2, FixedProgress DEF TypeInv, TypeOK

(* While a loader is past its downloads, every file is there.              *)
LEMMA AllThere ==
    ASSUME TypeInv, FilesThere, NEW l \in Loaders, at[l].pc \notin {"download", "gone"}
    PROVE  \A f \in Files : files[f] > 0
<1>1. at[Main].pc # "download"
  BY MainDone
<1> QED BY <1>1 DEF FilesThere

LEMMA WillStoreKept ==
    ASSUME NEW k \in Loaders, at'[k] = at[k], NEW s
    PROVE  WillStore(k, s)' <=> WillStore(k, s)
  BY DEF WillStore

LEMMA StoresNone == \A f, s : SlotsOf[f] = <<>> => ~Stores(f, s)
  BY DEF Stores

(* Of one slot to store in, the first is all.                              *)
LEMMA OneSlot ==
    ASSUME NEW q \in Seq(Slots), Len(q) = 1
    PROVE  /\ Head(q) \in Slots
           /\ \A s : (\E i \in DOMAIN q : q[i] = s) <=> s = Head(q)
<1>1. DOMAIN q = 1 .. 1 /\ q # <<>>
  BY LenProperties
<1>2. Head(q) = q[1]
  BY <1>1 DEF Head
<1> QED BY <1>1, <1>2, HeadTailProperties

(* Loader l goes on, touches neither slots nor readers, and will store     *)
(* what it was going to.                                                   *)
Harmless(l) ==
    /\ slots' = slots /\ reader' = reader
    /\ \A k \in Loaders \ {l} : at'[k] = at[k]
    /\ at'[l].pc # "store"
    /\ at'[l].got \in {Nil, at[l].got} \cup {slots[s] : s \in Slots}
    /\ \A s \in Slots : at'[l].old[s] \in {Nil, at[l].old[s], slots[s]}
    /\ \A f \in Files, s \in Slots : Stores(f, s) /\ WillStore(l, s) => WillStore(l, s)'
    /\ at'[l].pc \in {"take", "fill"} =>
          \A f \in Files : ~Stores(f, Head(at'[l].slot))

LEMMA HarmlessKeeps ==
    ASSUME TypeInv, LoadsInv, FilesThere', NEW l \in Loaders, Harmless(l)
    PROVE  LoadsInv'
<1>1. slots' = slots /\ reader' = reader /\ \A k \in Loaders \ {l} : at'[k] = at[k]
  BY DEF Harmless
<1>2. \A k \in Loaders : at'[k].pc = "store" => k # l /\ at[k].pc = "store" /\ at'[k] = at[k]
  BY <1>1 DEF Harmless
<1>3. StoresOnce'
  BY <1>2 DEF LoadsInv, StoresOnce
<1>4. ASSUME NEW k \in Loaders, at'[k].pc = "store" PROVE Fresh(k)'
  <2>1. k # l /\ at'[k] = at[k] /\ Fresh(k) /\ at[k].got # Nil
    <3>1. k # l /\ at'[k] = at[k] /\ at[k].pc = "store"
      BY <1>2, <1>4
    <3> QED BY <3>1, ProviderAssumption DEF LoadsInv, StoresFresh, TypeInv, Shape
  <2>2. at'[l].got # at[k].got /\ \A s \in Slots : at'[l].old[s] # at[k].got
    BY <2>1 DEF Fresh, Harmless
  <2> QED BY <1>1, <2>1, <2>2 DEF Fresh
<1>5. StoresFresh'
  BY <1>2, <1>4 DEF StoresFresh
<1>6. ASSUME NEW k \in Loaders, NEW f \in Files, NEW s \in Slots, Stores(f, s), WillStore(k, s)
      PROVE  WillStore(k, s)'
  BY <1>1, <1>6, WillStoreKept DEF Harmless
<1>7. OwnSlotsHeld'
  BY <1>1, <1>6 DEF LoadsInv, OwnSlotsHeld, Loaders, Stores
<1>8. FillsOthers'
  BY <1>1 DEF LoadsInv, FillsOthers, Harmless, Stores
<1>9. ClosedCovered'
  BY <1>1, <1>6 DEF LoadsInv, ClosedCovered, Stores
<1> QED BY <1>3, <1>5, <1>7, <1>8, <1>9 DEF LoadsInv

LEMMA FilesStayThere ==
    ASSUME FilesThere, files' = files, at[Main].pc # "download" \/ at'[Main] = at[Main]
    PROVE  FilesThere'
  BY DEF FilesThere

LEMMA OpeningSteps ==
    /\ Opening({}).pc = "check" /\ Opening({}).got = Nil /\ Opening({}).old = NoSlots
    /\ \A todo : todo # {} => /\ Opening(todo).pc = "open" /\ Opening(todo).todo = todo
                              /\ Opening(todo).got = Nil /\ Opening(todo).old = NoSlots
  BY DEF Opening, Idle

(* A load begins, or ends for good.                                        *)
LEMMA BeginHarmless ==
    ASSUME TypeInv, LoadsInv, NEW l \in Loaders \ {Main}, at[l].pc = "idle",
           NEW p, p.pc \in {"copy", "download", "gone"}, p.got = Nil, p.old = NoSlots,
           Go(l, p), UNCHANGED <<files, slots, reader>>
    PROVE  Harmless(l) /\ FilesThere'
<1>1. /\ at'[l] = p /\ \A k \in Loaders \ {l} : at'[k] = at[k]
      /\ files' = files /\ slots' = slots /\ reader' = reader
  BY DEF Go, TypeInv, TypeOK
<1>2. FilesThere'
  BY <1>1, FilesStayThere DEF LoadsInv, Loaders
<1>3. \A s : ~WillStore(l, s)
  BY DEF WillStore
<1>4. \A s \in Slots : p.old[s] = Nil
  BY DEF NoSlots
<1> QED BY <1>1, <1>2, <1>3, <1>4 DEF Harmless

LEMMA BeginSteps ==
    ASSUME TypeInv, LoadsInv, ReloadTick \/ DownloadTick \/ \E l \in Loaders : Stop(l)
    PROVE  LoadsInv'
<1>1. Reloader \in Loaders \ {Main} /\ Downloader \in Loaders \ {Main}
  BY ProviderAssumption DEF Loaders
<1>2. CASE ReloadTick
  <2> DEFINE p == [Idle EXCEPT !.pc = "copy"]
  <2>1. p.pc = "copy" /\ p.got = Nil /\ p.old = NoSlots
    BY DEF Idle
  <2>2. Go(Reloader, p) /\ at[Reloader].pc = "idle" /\ UNCHANGED <<files, slots, reader>>
    BY <1>2 DEF ReloadTick, At
  <2> HIDE DEF p
  <2> QED BY <1>1, <2>1, <2>2, BeginHarmless, HarmlessKeeps
<1>3. CASE DownloadTick
  <2> DEFINE p == [Idle EXCEPT !.pc = "download", !.todo = Downloads]
  <2>1. p.pc = "download" /\ p.got = Nil /\ p.old = NoSlots
    BY DEF Idle
  <2>2. Go(Downloader, p) /\ at[Downloader].pc = "idle" /\ UNCHANGED <<files, slots, reader>>
    BY <1>3 DEF DownloadTick, At
  <2> HIDE DEF p
  <2> QED BY <1>1, <2>1, <2>2, BeginHarmless, HarmlessKeeps
<1>4. ASSUME NEW l \in Loaders, Stop(l) PROVE LoadsInv'
  <2>1. Gone.pc = "gone" /\ Gone.got = Nil /\ Gone.old = NoSlots
    BY DEF Gone, Idle
  <2>2. /\ Go(l, Gone) /\ at[l].pc = "idle" /\ l # Main
        /\ UNCHANGED <<files, slots, reader>>
    BY <1>4 DEF Stop, At
  <2> QED BY <2>1, <2>2, BeginHarmless, HarmlessKeeps
<1> QED BY <1>2, <1>3, <1>4

LEMMA DownloadKeeps ==
    ASSUME TypeInv, LoadsInv, WholeDirectory, NEW l \in Loaders, Download(l)
    PROVE  LoadsInv'
<1> DEFINE f == NextFile(l)
           p == AfterDownload(at[l].todo \ {f})
<1>1. /\ At(l, "download") /\ Go(l, p)
      /\ files' = IF files[f] < MaxVersion THEN [files EXCEPT ![f] = @ + 1] ELSE files
      /\ slots' = slots /\ reader' = reader
  BY DEF Download
<1>2. /\ p.got = Nil /\ p.old = NoSlots
      /\ \/ p.pc = "copy" /\ at[l].todo \ {f} = {}
         \/ p.pc = "download" /\ p.todo = at[l].todo \ {f}
  BY DEF AfterDownload, Idle
<1>3. /\ files \in [Files -> Nat] /\ f \in Files /\ MaxVersion \in Nat /\ MaxVersion > 0
      /\ at \in [Loaders -> Progress]
  BY <1>1, NextFileThere, ProviderAssumption DEF TypeInv, TypeOK, At, WholeDirectory
<1> HIDE DEF p, f
<1>4. at'[l] = p /\ \A k \in Loaders \ {l} : at'[k] = at[k]
  BY <1>1, <1>3 DEF Go
<1>5. /\ \A g \in Files : files'[g] >= files[g]
      /\ files'[f] > 0 /\ \A g \in Files : files[g] \in Nat /\ files'[g] \in Nat
  <2>1. CASE files[f] < MaxVersion
    <3>1. files' = [files EXCEPT ![f] = @ + 1]
      BY <1>1, <2>1
    <3> QED BY <1>3, <3>1
  <2>2. CASE ~(files[f] < MaxVersion)
    <3>1. files' = files /\ files[f] \in Nat
      BY <1>1, <1>3, <2>2
    <3> QED BY <1>3, <2>2, <3>1
  <2> QED BY <2>1, <2>2
<1>6. FilesThere'
  <2>1. Main \in Loaders
    BY DEF Loaders
  <2>2. ASSUME NEW g \in Files, ~(files'[g] > 0)
        PROVE  at'[Main].pc = "download" /\ g \in at'[Main].todo
    <3>1. ~(files[g] > 0) /\ g # f
      BY <1>5, <2>2
    <3>2. at[Main].pc = "download" /\ g \in at[Main].todo
      BY <3>1 DEF LoadsInv, FilesThere
    <3> QED BY <1>2, <1>4, <2>1, <3>1, <3>2
  <2> QED BY <2>2 DEF FilesThere
<1>7. \A s \in Slots : p.old[s] = Nil
  BY <1>2 DEF NoSlots
<1>8. \A s : WillStore(l, s)'
  BY <1>2, <1>4 DEF WillStore
<1>9. Harmless(l)
  BY <1>1, <1>2, <1>4, <1>7, <1>8 DEF Harmless
<1> QED BY <1>6, <1>9, HarmlessKeeps

(* The slots are copied, looked at, and read from.                         *)
LEMMA LooksKeep ==
    ASSUME TypeInv, LoadsInv, NEW l \in Loaders, Copy(l) \/ List(l) \/ Check(l) \/ Take(l)
    PROVE  LoadsInv'
<1> DEFINE h == Head(at[l].slot)
<1>1. /\ at \in [Loaders -> Progress]
      /\ at[l] \in [pc : LoadPC, old : [Slots -> Numbers \cup {Nil}], todo : SUBSET Files,
                    got : Numbers \cup {Nil}, slot : Seq(Slots)]
  BY RestTyped DEF Progress, TypeInv, TypeOK
<1>2. at[l].pc \notin {"download", "gone"} /\ files' = files /\ slots' = slots /\ reader' = reader
  BY DEF Copy, List, Check, Take, At
<1>3. \A k \in Loaders \ {l} : at'[k] = at[k]
  BY <1>1 DEF Copy, List, Check, Take, Go
<1>4. FilesThere'
  BY <1>2, <1>3, FilesStayThere, MainDone DEF LoadsInv, Loaders
<1>5. CASE Copy(l)
  <2>1. at'[l].pc = "close" /\ at'[l].got = at[l].got /\ at'[l].old = slots
    BY <1>1, <1>5 DEF Copy, Go
  <2>2. \A s : WillStore(l, s)'
    BY <2>1 DEF WillStore
  <2> QED BY <1>2, <1>3, <1>4, <2>1, <2>2, HarmlessKeeps DEF Harmless
<1>6. CASE List(l)
  <2>1. at'[l] = Opening(Files)
    <3>1. \A f \in Files : files[f] > 0
      BY <1>2, AllThere DEF LoadsInv
    <3>2. {f \in Files : files[f] > 0} = Files
      BY <3>1
    <3> QED BY <1>1, <1>6, <3>2 DEF List, Go
  <2>2. at'[l].pc \in {"open", "check"} /\ at'[l].got = Nil /\ at'[l].old = NoSlots
    BY <2>1, OpeningSteps
  <2>3. ASSUME NEW f \in Files, NEW s \in Slots, Stores(f, s) PROVE WillStore(l, s)'
    <3>1. at'[l].pc = "open" /\ at'[l].todo = Files
      BY <2>1, <2>3, OpeningSteps
    <3> QED BY <2>3, <3>1 DEF WillStore, Stores
  <2>4. \A s \in Slots : at'[l].old[s] = Nil
    BY <2>2 DEF NoSlots
  <2> QED BY <1>2, <1>3, <1>4, <2>2, <2>3, <2>4, HarmlessKeeps DEF Harmless
<1>7. CASE Check(l)
  <2>1. /\ at[l].pc = "check" /\ at'[l].got = at[l].got /\ at'[l].old = at[l].old
        /\ \/ at'[l].pc = "check"
           \/ at'[l].pc = "take" /\ at'[l].slot = at[l].slot /\ slots[h] = Nil
    BY <1>1, <1>7 DEF Check, Go, At
  <2>2. \A s : ~WillStore(l, s)
    BY <2>1 DEF WillStore
  <2>3. ASSUME at'[l].pc = "take", NEW f \in Files, Stores(f, h) PROVE FALSE
    <3>1. slots[h] = Nil /\ h \in Slots
      BY <1>7, <2>1, <2>3, RestTyped DEF Check
    <3>2. WillStore(Main, h)
      BY <2>3, <3>1 DEF LoadsInv, OwnSlotsHeld
    <3>3. at[Main].pc \in {"check", "gone"}
      BY <2>1, MainDone
    <3> QED BY <3>2, <3>3 DEF WillStore
  <2> HIDE DEF h
  <2> QED BY <1>2, <1>3, <1>4, <2>1, <2>2, <2>3, HarmlessKeeps DEF Harmless, h
<1>8. CASE Take(l)
  <2>1. /\ at[l].pc = "take" /\ at'[l].pc = "fill" /\ at'[l].slot = at[l].slot
        /\ at'[l].got = slots[Sibling(h)] /\ at'[l].old = at[l].old
    BY <1>1, <1>8 DEF Take, Go, At
  <2>2. Sibling(h) \in Slots
    <3>1. h \in Slots
      BY <2>1, RestTyped DEF TypeInv, Shape
    <3> QED BY <3>1 DEF Sibling, Slots
  <2>3. \A s : ~WillStore(l, s)
    BY <2>1 DEF WillStore
  <2>4. \A f \in Files : ~Stores(f, Head(at'[l].slot))
    BY <2>1 DEF LoadsInv, FillsOthers
  <2> HIDE DEF h
  <2> QED BY <1>2, <1>3, <1>4, <2>1, <2>2, <2>3, <2>4, HarmlessKeeps DEF Harmless
<1> QED BY <1>5, <1>6, <1>7, <1>8

(* A loader closes the readers of its copies; it will open every file.     *)
LEMMA CloseKeeps ==
    ASSUME TypeInv, LoadsInv, NEW l \in Loaders, Close(l)
    PROVE  LoadsInv'
<1> DEFINE s == SlotOrder[CHOOSE i \in ToClose(l) : \A j \in ToClose(l) : i <= j]
           m == at[l].old[s]
<1>1. /\ at[l].pc = "close" /\ at' = [at EXCEPT ![l] = [at[l] EXCEPT !.old[s] = Nil]]
      /\ reader' = [reader EXCEPT ![m] = Closed]
      /\ files' = files /\ slots' = slots
  BY DEF Close, At, Go
<1>2. s \in Slots
  <2>1. ToClose(l) \subseteq Nat /\ ToClose(l) # {}
    <3>1. ToClose(l) # {}
      BY DEF Close
    <3>2. ToClose(l) \subseteq 1 .. 4
      BY DEF ToClose
    <3> QED BY <3>1, <3>2
  <2>2. \E i \in ToClose(l) : \A j \in ToClose(l) : i <= j
    BY <2>1, LeastNumber
  <2>3. PICK i \in ToClose(l) : s = SlotOrder[i]
    BY <2>2
  <2>4. i \in 1 .. 4
    BY <2>3 DEF ToClose
  <2> HIDE DEF s
  <2> QED BY <2>3, <2>4 DEF SlotOrder, Slots
<1> HIDE DEF s
<1>3. /\ at \in [Loaders -> Progress]
      /\ at[l] \in [pc : LoadPC, old : [Slots -> Numbers \cup {Nil}], todo : SUBSET Files,
                    got : Numbers \cup {Nil}, slot : Seq(Slots)]
      /\ reader \in [Numbers -> Nat]
  BY RestTyped DEF Progress, TypeInv, TypeOK
<1>4. /\ \A k \in Loaders \ {l} : at'[k] = at[k]
      /\ at'[l].pc = "close" /\ at'[l].got = at[l].got
      /\ at'[l].old = [at[l].old EXCEPT ![s] = Nil]
  BY <1>1, <1>3
<1>5. /\ \A k \in Loaders : at'[k].got = at[k].got
      /\ \A k \in Loaders : \A t \in Slots : at'[k].old[t] \in {Nil, at[k].old[t]}
  BY <1>3, <1>4
<1>6. \A k \in Loaders : at'[k].pc = "store" => k # l /\ at[k].pc = "store" /\ at'[k] = at[k]
  BY <1>4
<1>7. FilesThere'
  BY <1>1, <1>4, FilesStayThere, MainDone DEF LoadsInv, Loaders
<1>8. StoresOnce'
  BY <1>6 DEF LoadsInv, StoresOnce
<1>9. ASSUME NEW k \in Loaders, at'[k].pc = "store" PROVE Fresh(k)'
  <2>1. k # l /\ at'[k] = at[k] /\ Fresh(k) /\ at[k].got \in Numbers
    BY <1>6, <1>9 DEF LoadsInv, StoresFresh, TypeInv, Shape
  <2>2. m # at[k].got
    BY <1>2, <2>1 DEF Fresh
  <2> HIDE DEF m
  <2>3. reader'[at[k].got] = reader[at[k].got]
    BY <1>1, <1>3, <2>1, <2>2
  <2> QED BY <1>1, <1>5, <2>1, <2>3, ProviderAssumption DEF Fresh
<1>10. StoresFresh'
  BY <1>9 DEF StoresFresh
<1>11. \A k \in Loaders, t \in Slots : WillStore(k, t) => WillStore(k, t)'
  <2>1. \A t : WillStore(l, t)'
    BY <1>4 DEF WillStore
  <2> QED BY <1>4, <2>1, WillStoreKept
<1>12. OwnSlotsHeld'
  BY <1>1, <1>11 DEF LoadsInv, OwnSlotsHeld, Loaders, Stores
<1>13. FillsOthers'
  BY <1>4 DEF LoadsInv, FillsOthers, Stores
<1>14. ClosedCovered'
  <2>1. \A t : WillStore(l, t)'
    BY <1>4 DEF WillStore
  <2> QED BY <2>1 DEF ClosedCovered
<1> QED BY <1>7, <1>8, <1>10, <1>12, <1>13, <1>14 DEF LoadsInv

(* A file is opened, under a number nobody refers to.                      *)
LEMMA OpenKeeps ==
    ASSUME TypeInv, LoadsInv, OneSlotEach, NEW l \in Loaders, Open(l)
    PROVE  LoadsInv'
<1> DEFINE f == NextFile(l)
           n == CHOOSE m \in Numbers \ Referred : TRUE
<1>1. /\ at[l].pc = "open" /\ n \in Numbers \ Referred
      /\ reader' = [m \in Numbers |-> IF m = n THEN files[f]
                                      ELSE IF m \in Referred THEN reader[m] ELSE Closed]
      /\ files' = files /\ slots' = slots
  BY DEF Open, At
<1>2. /\ f \in Files /\ at[l].todo \subseteq Files
      /\ at \in [Loaders -> Progress]
      /\ at[l] \in [pc : LoadPC, old : [Slots -> Numbers \cup {Nil}], todo : SUBSET Files,
                    got : Numbers \cup {Nil}, slot : Seq(Slots)]
      /\ slots \in [Slots -> Numbers \cup {Nil}]
      /\ SlotsOf[f] \in Seq(Slots) /\ Len(SlotsOf[f]) <= 1
  BY <1>1, NextFileThere, RestTyped, ProviderAssumption DEF Progress, TypeInv, TypeOK, OneSlotEach
<1>3. at'[l] = IF SlotsOf[f] = <<>> THEN Opening(at[l].todo \ {f})
                ELSE [at[l] EXCEPT !.pc = "store", !.todo = @ \ {f}, !.got = n,
                                   !.slot = SlotsOf[f]]
  BY <1>2 DEF Open, Go
<1>4. \A k \in Loaders \ {l} : at'[k] = at[k]
  BY <1>2 DEF Open, Go
<1> HIDE DEF n, f
<1>5. \/ /\ SlotsOf[f] = <<>>
         /\ at'[l].got = Nil /\ at'[l].old = NoSlots
         /\ \/ at'[l].pc = "check" /\ at[l].todo \ {f} = {}
            \/ at'[l].pc = "open" /\ at'[l].todo = at[l].todo \ {f}
      \/ /\ SlotsOf[f] # <<>>
         /\ at'[l].pc = "store" /\ at'[l].todo = at[l].todo \ {f}
         /\ at'[l].got = n /\ at'[l].slot = SlotsOf[f] /\ at'[l].old = at[l].old
  <2>1. CASE SlotsOf[f] = <<>>
    <3>1. at'[l] = Opening(at[l].todo \ {f})
      BY <1>3, <2>1
    <3>2. CASE at[l].todo \ {f} = {}
      BY <2>1, <3>1, <3>2, OpeningSteps
    <3>3. CASE at[l].todo \ {f} # {}
      <4>1. PICK T : T = at[l].todo \ {f}
        OBVIOUS
      <4>2. /\ Opening(T).pc = "open" /\ Opening(T).todo = T
            /\ Opening(T).got = Nil /\ Opening(T).old = NoSlots
        BY <3>3, <4>1, OpeningSteps
      <4>3. at'[l] = Opening(T)
        BY <3>1, <4>1
      <4> QED BY <2>1, <4>1, <4>2, <4>3
    <3> QED BY <3>2, <3>3
  <2>2. CASE SlotsOf[f] # <<>>
    BY <1>2, <1>3, <2>2
  <2> QED BY <2>1, <2>2
<1>6. /\ files[f] > 0
      /\ FilesThere'
  BY <1>1, <1>2, <1>4, AllThere, FilesStayThere, MainDone DEF LoadsInv, Loaders
<1>7. /\ \A s \in Slots : slots[s] # n
      /\ \A k \in Loaders : at[k].got # n
      /\ \A k \in Loaders : \A s \in Slots : at[k].old[s] # n
  <2>1. n \notin Referred
    BY <1>1
  <2> QED BY <2>1 DEF Referred
<1>8. /\ \A s \in Slots : slots[s] # Nil => reader'[slots[s]] = reader[slots[s]]
      /\ \A k \in Loaders : at[k].got \in Numbers => reader'[at[k].got] = reader[at[k].got]
      /\ reader'[n] = files[f]
  <2>1. /\ \A s \in Slots : slots[s] \in Referred
        /\ \A k \in Loaders : at[k].got \in Referred
    BY DEF Referred
  <2> QED BY <1>1, <1>2, <1>7, <2>1
<1>9. Nil \notin Numbers /\ n # Nil /\ \A s \in Slots : NoSlots[s] # n
  BY <1>1, ProviderAssumption DEF NoSlots
<1>10. StoresOnce'
  <2>1. SlotsOf[f] # <<>> => Len(SlotsOf[f]) = 1
    <3>1. SlotsOf[f] # <<>> => Len(SlotsOf[f]) # 0
      BY <1>2, EmptySeq, LenProperties
    <3>2. Len(SlotsOf[f]) \in Nat /\ Len(SlotsOf[f]) <= 1
      BY <1>2, LenProperties
    <3>3. \A k \in Nat : k <= 1 => k = 0 \/ k = 1
      OBVIOUS
    <3>4. Len(SlotsOf[f]) = 0 \/ Len(SlotsOf[f]) = 1
      BY ONLY <3>2, <3>3, Zenon
    <3> QED BY <3>1, <3>4
  <2>2. at'[l].pc = "store" => Len(at'[l].slot) = 1
    BY <1>5, <2>1
  <2> QED BY <1>4, <2>2 DEF LoadsInv, StoresOnce
<1>11. ASSUME NEW k \in Loaders, at'[k].pc = "store" PROVE Fresh(k)'
  <2>1. CASE k = l
    <3>1. at'[l].got = n /\ at'[l].old = at[l].old
      BY <1>5, <1>11, <2>1
    <3>2. /\ \A j \in Loaders : j # l => at'[j].got # n
          /\ \A j \in Loaders : \A s \in Slots : at'[j].old[s] # n
      BY <1>4, <1>7, <3>1
    <3>3. reader'[n] # Closed
      BY <1>6, <1>8 DEF Closed
    <3> QED BY <1>1, <1>7, <2>1, <3>1, <3>2, <3>3 DEF Fresh
  <2>2. CASE k # l
    <3>1. at'[k] = at[k] /\ Fresh(k) /\ at[k].got \in Numbers
      BY <1>4, <1>11, <2>2 DEF LoadsInv, StoresFresh, TypeInv, Shape
    <3>2. /\ at'[l].got # at[k].got
          /\ \A s \in Slots : at'[l].old[s] # at[k].got
      BY <1>5, <1>7, <1>9, <3>1 DEF Fresh, NoSlots
    <3>3. reader'[at[k].got] # Closed
      BY <1>8, <3>1 DEF Fresh
    <3> QED BY <1>1, <1>4, <3>1, <3>2, <3>3 DEF Fresh
  <2> QED BY <2>1, <2>2
<1>12. StoresFresh'
  BY <1>11 DEF StoresFresh
<1>13. ASSUME NEW k \in Loaders, NEW s \in Slots, WillStore(k, s)
       PROVE  WillStore(k, s)'
  <2>1. CASE k # l
    BY <1>4, <1>13, <2>1, WillStoreKept
  <2>2. CASE k = l
    <3>1. PICK g \in at[l].todo : Stores(g, s)
      BY <1>1, <1>13, <2>2 DEF WillStore
    <3>2. CASE g = f
      <4>1. SlotsOf[f] # <<>>
        BY <3>1, <3>2, StoresNone
      <4>2. at'[l].pc = "store" /\ at'[l].slot = SlotsOf[f]
        BY <1>5, <4>1
      <4> QED BY <2>2, <3>1, <3>2, <4>2 DEF WillStore, Stores
    <3>3. CASE g # f
      <4>1. at'[l].pc \in {"open", "store"} /\ g \in at'[l].todo
        BY <1>5, <3>1, <3>3
      <4> QED BY <2>2, <3>1, <4>1 DEF WillStore, Stores
    <3> QED BY <3>2, <3>3
  <2> QED BY <2>1, <2>2
<1>14. OwnSlotsHeld'
  BY <1>1, <1>13 DEF LoadsInv, OwnSlotsHeld, Loaders, Stores
<1>15. FillsOthers'
  BY <1>4, <1>5 DEF LoadsInv, FillsOthers, Stores
<1>16. ClosedCovered'
  BY <1>1, <1>8, <1>13 DEF LoadsInv, ClosedCovered, Stores
<1> QED BY <1>6, <1>10, <1>12, <1>14, <1>15, <1>16 DEF LoadsInv

(* A reader opened is stored; a load stores it once.                       *)
LEMMA StoreKeeps ==
    ASSUME TypeInv, LoadsInv, NEW l \in Loaders, Store(l)
    PROVE  LoadsInv'
<1> DEFINE h == Head(at[l].slot)
           m == at[l].got
<1>1. /\ at[l].pc = "store" /\ slots' = [slots EXCEPT ![h] = m]
      /\ files' = files /\ reader' = reader
  BY DEF Store, At
<1>2. /\ at \in [Loaders -> Progress] /\ slots \in [Slots -> Numbers \cup {Nil}]
      /\ at[l].slot \in Seq(Slots) /\ Len(at[l].slot) = 1
      /\ m \in Numbers /\ m # Nil /\ Fresh(l)
  BY <1>1, RestTyped, ProviderAssumption
     DEF Progress, TypeInv, TypeOK, Shape, LoadsInv, StoresOnce, StoresFresh
<1>3. h \in Slots /\ \A s : (\E i \in DOMAIN at[l].slot : at[l].slot[i] = s) => s = h
  BY <1>2, OneSlot
<1>4. at'[l] = Opening(at[l].todo)
  BY <1>2 DEF Store, Go, AfterStore
<1>5. \A k \in Loaders \ {l} : at'[k] = at[k]
  BY <1>2 DEF Store, Go
<1>6. /\ at'[l].got = Nil /\ at'[l].old = NoSlots
      /\ \/ at'[l].pc = "check" /\ at[l].todo = {}
         \/ at'[l].pc = "open" /\ at'[l].todo = at[l].todo
  <2>1. CASE at[l].todo = {}
    BY <1>4, <2>1, OpeningSteps
  <2>2. CASE at[l].todo # {}
    BY <1>4, <2>2, OpeningSteps
  <2> QED BY <2>1, <2>2
<1> HIDE DEF h, m
<1>7. slots'[h] = m /\ \A s \in Slots : s # h => slots'[s] = slots[s]
  BY <1>1, <1>2, <1>3
<1>8. FilesThere'
  BY <1>1, <1>5, FilesStayThere, MainDone DEF LoadsInv, Loaders
<1>9. \A k \in Loaders : at'[k].pc = "store" => k # l /\ at[k].pc = "store" /\ at'[k] = at[k]
  BY <1>5, <1>6
<1>10. StoresOnce'
  BY <1>9 DEF LoadsInv, StoresOnce
<1>11. ASSUME NEW k \in Loaders, at'[k].pc = "store" PROVE Fresh(k)'
  <2>1. k # l /\ at'[k] = at[k] /\ Fresh(k) /\ at[k].got \in Numbers
    BY <1>9, <1>11 DEF LoadsInv, StoresFresh, TypeInv, Shape
  <2>2. at[k].got # Nil /\ at[k].got # m
    BY <2>1, ProviderAssumption DEF Fresh, m
  <2>3. \A s \in Slots : slots'[s] # at[k].got
    BY <1>7, <2>1, <2>2 DEF Fresh
  <2>4. at'[l].got # at[k].got /\ \A s \in Slots : at'[l].old[s] # at[k].got
    BY <1>6, <2>2 DEF NoSlots
  <2> QED BY <1>1, <1>5, <2>1, <2>3, <2>4 DEF Fresh
<1>12. StoresFresh'
  BY <1>11 DEF StoresFresh
<1>13. ASSUME NEW k \in Loaders, NEW s \in Slots, s # h, WillStore(k, s)
       PROVE  WillStore(k, s)'
  <2>1. CASE k # l
    BY <1>5, <1>13, <2>1, WillStoreKept
  <2>2. CASE k = l
    <3>1. PICK g \in at[l].todo : Stores(g, s)
      BY <1>1, <1>3, <1>13, <2>2 DEF WillStore
    <3> QED BY <1>6, <2>2, <3>1 DEF WillStore, Stores
  <2> QED BY <2>1, <2>2
<1>14. OwnSlotsHeld'
  <2> SUFFICES ASSUME NEW f \in Files, NEW s \in Slots, Stores(f, s)
               PROVE  slots'[s] # Nil \/ WillStore(Main, s)'
    BY DEF OwnSlotsHeld, Stores
  <2>1. CASE s = h
    BY <1>2, <1>7, <2>1
  <2>2. CASE s # h
    BY <1>7, <1>13, <2>2 DEF LoadsInv, OwnSlotsHeld, Loaders
  <2> QED BY <2>1, <2>2
<1>15. FillsOthers'
  BY <1>5, <1>6 DEF LoadsInv, FillsOthers, Stores
<1>16. ClosedCovered'
  <2> SUFFICES ASSUME NEW f \in Files, NEW s \in Slots, Stores(f, s), slots'[s] # Nil,
                      reader'[slots'[s]] = Closed
               PROVE  \E k \in Loaders : WillStore(k, s)'
    BY DEF ClosedCovered, Stores
  <2>1. s # h
    BY <1>1, <1>2, <1>7 DEF Fresh, m
  <2> QED BY <1>1, <1>7, <1>13, <2>1 DEF LoadsInv, ClosedCovered
<1> QED BY <1>8, <1>10, <1>12, <1>14, <1>15, <1>16 DEF LoadsInv

(* A fallback is written, to a slot that has no file of its own.           *)
LEMMA FillKeeps ==
    ASSUME TypeInv, LoadsInv, NEW l \in Loaders, Fill(l)
    PROVE  LoadsInv'
<1> DEFINE h == Head(at[l].slot)
           m == at[l].got
<1>1. /\ at[l].pc = "fill" /\ slots' = [slots EXCEPT ![h] = m]
      /\ files' = files /\ reader' = reader
  BY DEF Fill, At
<1>2. /\ at \in [Loaders -> Progress] /\ slots \in [Slots -> Numbers \cup {Nil}]
      /\ at[l] \in [pc : LoadPC, old : [Slots -> Numbers \cup {Nil}], todo : SUBSET Files,
                    got : Numbers \cup {Nil}, slot : Seq(Slots)]
      /\ h \in Slots
  BY <1>1, RestTyped DEF Progress, TypeInv, TypeOK, Shape
<1>3. at'[l].pc = "check" /\ at'[l].got = Nil /\ at'[l].old = at[l].old
  BY <1>2 DEF Fill, Go
<1>4. \A k \in Loaders \ {l} : at'[k] = at[k]
  BY <1>2 DEF Fill, Go
<1>5. \A f \in Files : ~Stores(f, h)
  BY <1>1 DEF LoadsInv, FillsOthers
<1> HIDE DEF h, m
<1>6. slots'[h] = m /\ \A s \in Slots : s # h => slots'[s] = slots[s]
  BY <1>1, <1>2
<1>7. FilesThere'
  BY <1>1, <1>4, FilesStayThere, MainDone DEF LoadsInv, Loaders
<1>8. \A k \in Loaders : at'[k].pc = "store" => k # l /\ at[k].pc = "store" /\ at'[k] = at[k]
  BY <1>3, <1>4
<1>9. StoresOnce'
  BY <1>8 DEF LoadsInv, StoresOnce
<1>10. ASSUME NEW k \in Loaders, at'[k].pc = "store" PROVE Fresh(k)'
  <2>1. k # l /\ at'[k] = at[k] /\ Fresh(k) /\ at[k].got \in Numbers
    BY <1>8, <1>10 DEF LoadsInv, StoresFresh, TypeInv, Shape
  <2>2. at[k].got # Nil /\ at[k].got # m
    BY <2>1, ProviderAssumption DEF Fresh, m
  <2>3. \A s \in Slots : slots'[s] # at[k].got
    BY <1>6, <2>1, <2>2 DEF Fresh
  <2>4. at'[l].got # at[k].got /\ \A s \in Slots : at'[l].old[s] # at[k].got
    BY <1>3, <2>1, <2>2 DEF Fresh
  <2> QED BY <1>1, <1>4, <2>1, <2>3, <2>4 DEF Fresh
<1>11. StoresFresh'
  BY <1>10 DEF StoresFresh
<1>12. ASSUME NEW k \in Loaders, NEW s \in Slots, WillStore(k, s)
       PROVE  WillStore(k, s)'
  <2>1. k # l
    BY <1>1, <1>12 DEF WillStore
  <2> QED BY <1>4, <1>12, <2>1, WillStoreKept
<1>13. OwnSlotsHeld'
  BY <1>5, <1>6, <1>12 DEF LoadsInv, OwnSlotsHeld, Loaders, Stores
<1>14. FillsOthers'
  BY <1>3, <1>4 DEF LoadsInv, FillsOthers, Stores
<1>15. ClosedCovered'
  BY <1>1, <1>5, <1>6, <1>12 DEF LoadsInv, ClosedCovered, Stores
<1> QED BY <1>7, <1>9, <1>11, <1>13, <1>14, <1>15 DEF LoadsInv

(* A load ends: only the first one of all changes the phase.               *)
LEMMA LoadedKeeps ==
    ASSUME TypeInv, LoadsInv, NEW l \in Loaders, Loaded(l)
    PROVE  LoadsInv'
<1>1. /\ at[l].pc = "check" /\ EndLoad(l) /\ at \in [Loaders -> Progress]
      /\ files' = files /\ slots' = slots /\ reader' = reader
  BY DEF Loaded, At, TypeInv, TypeOK
<1>2. \A k \in Loaders : at'[k] \in {at[k], Idle, Gone}
  <2>1. CASE l # Main
    BY <1>1, <2>1 DEF EndLoad, Go
  <2>2. CASE l = Main
    BY <1>1, <2>2 DEF EndLoad, Go, Timers
  <2> QED BY <2>1, <2>2
<1>3. \A f \in Files : files[f] > 0
  BY <1>1, AllThere DEF LoadsInv
<1>4. FilesThere'
  BY <1>1, <1>3 DEF FilesThere
<1>5. /\ Idle.pc = "idle" /\ Idle.got = Nil /\ Idle.old = NoSlots
      /\ Gone.pc = "gone" /\ Gone.got = Nil /\ Gone.old = NoSlots
  BY DEF Gone, Idle
<1>6. \A k \in Loaders :
         \/ at'[k] = at[k]
         \/ at'[k].pc \in {"idle", "gone"} /\ at'[k].got = Nil /\ at'[k].old = NoSlots
  BY <1>2, <1>5
<1>7. StoresOnce'
  BY <1>6 DEF LoadsInv, StoresOnce
<1>8. ASSUME NEW k \in Loaders, at'[k].pc = "store" PROVE Fresh(k)'
  <2>1. at'[k] = at[k] /\ Fresh(k) /\ at[k].got \in Numbers /\ at[k].got # Nil
    BY <1>6, <1>8, ProviderAssumption DEF LoadsInv, StoresFresh, TypeInv, Shape
  <2>2. \A j \in Loaders : /\ j # k => at'[j].got # at[k].got
                            /\ \A s \in Slots : at'[j].old[s] # at[k].got
    BY <1>6, <2>1 DEF Fresh, NoSlots
  <2> QED BY <1>1, <2>1, <2>2 DEF Fresh
<1>9. StoresFresh'
  BY <1>8 DEF StoresFresh
<1>10. ASSUME NEW k \in Loaders, NEW s \in Slots, WillStore(k, s)
       PROVE  WillStore(k, s)'
  <2>1. k # l /\ at[k].pc # "gone"
    BY <1>1, <1>10 DEF WillStore
  <2>2. l # Main
    BY <1>1, <2>1, MainDone
  <2>3. at'[k] = at[k]
    BY <1>1, <2>1, <2>2 DEF EndLoad, Go
  <2> QED BY <1>10, <2>3, WillStoreKept
<1>11. OwnSlotsHeld'
  BY <1>1, <1>10 DEF LoadsInv, OwnSlotsHeld, Loaders, Stores
<1>12. FillsOthers'
  BY <1>6 DEF LoadsInv, FillsOthers, Stores
<1>13. ClosedCovered'
  BY <1>1, <1>10 DEF LoadsInv, ClosedCovered, Stores
<1> QED BY <1>4, <1>7, <1>9, <1>11, <1>12, <1>13 DEF LoadsInv

(* How the provider starts.                                                *)
LEMMA StartingSteps ==
    ASSUME NEW fs, \/ \A f \in Files : fs[f] > 0
                   \/ Downloads = Files /\ \A f \in Files : fs[f] = 0
    PROVE  /\ \A k \in Loaders : Starting(fs)[k].pc \in {"download", "copy", "gone"}
           /\ Starting(fs)[Main].pc # "gone"
           /\ \A f \in Files : fs[f] > 0 \/ /\ Starting(fs)[Main].pc = "download"
                                            /\ f \in Starting(fs)[Main].todo
<1>1. \A k \in Loaders : Starting(fs)[k].pc \in {"download", "copy", "gone"}
  BY DEF Starting, Idle, Gone
<1>2. Main \in Loaders
  BY DEF Loaders
<1>3. CASE Downloads # {} /\ \A f \in Files : fs[f] = 0
  <2>1. Starting(fs)[Main] = [Idle EXCEPT !.pc = "download", !.todo = Downloads]
    BY <1>2, <1>3 DEF Starting
  <2>2. Starting(fs)[Main].pc = "download" /\ Starting(fs)[Main].todo = Downloads
    BY <2>1 DEF Idle
  <2>3. Downloads = Files \/ Files = {}
    BY <1>3
  <2> QED BY <1>1, <2>2, <2>3
<1>4. CASE ~(Downloads # {} /\ \A f \in Files : fs[f] = 0)
  <2>1. Starting(fs)[Main] = [Idle EXCEPT !.pc = "copy"]
    BY <1>2, <1>4 DEF Starting
  <2>2. Starting(fs)[Main].pc = "copy"
    BY <2>1 DEF Idle
  <2>3. \A f \in Files : fs[f] > 0
    BY <1>4
  <2> QED BY <1>1, <2>2, <2>3
<1> QED BY <1>3, <1>4

LEMMA CrashKeeps ==
    ASSUME TypeInv, Unused, LoadsInv, NEW p \in Lookups, Crash(p)
    PROVE  LoadsInv'
<1>1. /\ at' = Starting(files) /\ slots' = NoSlots /\ files' = files
      /\ phase = "running"
  BY ProviderAssumption DEF Crash, Unused
<1>2. \A f \in Files : files[f] > 0
  BY <1>1, FixedProgress DEF TypeInv, TypeOK, LoadsInv, FilesThere
<1>3. FilesThere'
  BY <1>1, <1>2 DEF FilesThere
<1>4. /\ \A k \in Loaders : at'[k].pc \in {"download", "copy", "gone"}
      /\ at'[Main].pc # "gone"
  BY <1>1, <1>2, StartingSteps
<1>5. \A s \in Slots : slots'[s] = Nil
  BY <1>1 DEF NoSlots
<1>6. \A s : WillStore(Main, s)'
  BY <1>4 DEF WillStore, Loaders
<1> QED BY <1>3, <1>4, <1>5, <1>6
        DEF LoadsInv, StoresOnce, StoresFresh, OwnSlotsHeld, FillsOthers, ClosedCovered, Stores

LEMMA LookupKeeps ==
    ASSUME LoadsInv, UNCHANGED <<files, slots, reader, at>>
    PROVE  LoadsInv'
  BY DEF LoadsInv, FilesThere, StoresOnce, StoresFresh, Fresh, OwnSlotsHeld, FillsOthers,
         ClosedCovered, WillStore, Stores

LEMMA ClosedInvInit ==
    ASSUME WholeDirectory, Init
    PROVE  ClosedInv
<1>1. at = Starting(InitFiles) /\ slots = NoSlots /\ files = InitFiles
  BY DEF Init
<1>2. /\ \A k \in Loaders : at[k].pc \in {"download", "copy", "gone"}
      /\ at[Main].pc # "gone"
      /\ FilesThere
  BY <1>1, StartingSteps DEF WholeDirectory, FilesThere
<1>3. \A s \in Slots : slots[s] = Nil
  BY <1>1 DEF NoSlots
<1>4. \A s : WillStore(Main, s)
  BY <1>2 DEF WillStore, Loaders
<1>5. LoadsInv
  BY <1>2, <1>3, <1>4
     DEF LoadsInv, StoresOnce, StoresFresh, OwnSlotsHeld, FillsOthers, ClosedCovered
<1> QED BY <1>5, TypeInvInit DEF ClosedInv, Unused, Init

LEMMA UnusedStep ==
    ASSUME TypeInv, Unused, [Next]_vars
    PROVE  Unused'
<1>1. ASSUME NEW p \in Lookups, Lookup(p) PROVE Unused'
  BY <1>1 DEF Unused, Lookup
<1>2. ASSUME NEW p \in Lookups, LookupEnds(p) PROVE Unused'
  BY <1>2 DEF Unused, LookupEnds, TypeInv, TypeOK
<1>3. ASSUME NEW p \in Lookups, Crash(p) PROVE Unused'
  BY <1>3 DEF Unused, Crash
<1>4. ASSUME NEW l \in Loaders, EndLoad(l), using' = using, At(l, "check") \/ At(l, "close")
      PROVE  Unused'
  <2>1. CASE l # Main
    BY <1>4, <2>1 DEF EndLoad, Unused
  <2>2. CASE l = Main
    <3>1. phase = "starting"
      BY <1>4, <2>2, FixedProgress DEF TypeInv, TypeOK, At
    <3> QED BY <1>4, <3>1 DEF Unused
  <2> QED BY <2>1, <2>2
<1>5. ASSUME using' = using, phase' = phase PROVE Unused'
  BY <1>5 DEF Unused
<1>6. CASE ReloadTick \/ DownloadTick \/ UNCHANGED vars
  BY <1>5, <1>6 DEF ReloadTick, DownloadTick, vars
<1>7. ASSUME NEW l \in Loaders,
             Download(l) \/ DownloadFails(l) \/ Copy(l) \/ Close(l) \/ List(l) \/ Open(l)
               \/ OpenFails(l) \/ Store(l) \/ Check(l) \/ Take(l) \/ Fill(l) \/ Stop(l)
      PROVE  Unused'
  BY <1>5, <1>7 DEF Download, DownloadFails, Copy, Close, List, Open, OpenFails, Store, Check,
                    Take, Fill, Stop
<1>8. ASSUME NEW l \in Loaders, Loaded(l) \/ ListFails(l) PROVE Unused'
  BY <1>4, <1>8 DEF Loaded, ListFails
<1> QED BY <1>1, <1>2, <1>3, <1>6, <1>7, <1>8 DEF Next, Load

LEMMA LoadsInvStep ==
    ASSUME OneSlotEach, WholeDirectory, TypeInv, Unused, faults = 0 => LoadsInv, [Next]_vars,
           faults' = 0
    PROVE  LoadsInv'
<1>1. ASSUME faults' = faults + 1 PROVE FALSE
  BY <1>1 DEF TypeInv, TypeOK
<1>2. ASSUME faults' = faults PROVE LoadsInv
  BY <1>2
<1>3. CASE ReloadTick \/ DownloadTick \/ \E l \in Loaders : Stop(l)
  BY <1>2, <1>3, BeginSteps DEF ReloadTick, DownloadTick, Stop
<1>4. ASSUME NEW l \in Loaders, DownloadFails(l) \/ ListFails(l) \/ OpenFails(l)
      PROVE  LoadsInv'
  BY <1>1, <1>4 DEF DownloadFails, ListFails, OpenFails
<1>5. ASSUME NEW l \in Loaders, Download(l) PROVE LoadsInv'
  BY <1>2, <1>5, DownloadKeeps DEF Download
<1>6. ASSUME NEW l \in Loaders, Copy(l) \/ List(l) \/ Check(l) \/ Take(l) PROVE LoadsInv'
  BY <1>2, <1>6, LooksKeep DEF Copy, List, Check, Take
<1>7. ASSUME NEW l \in Loaders, Close(l) PROVE LoadsInv'
  BY <1>2, <1>7, CloseKeeps DEF Close
<1>8. ASSUME NEW l \in Loaders, Open(l) PROVE LoadsInv'
  BY <1>2, <1>8, OpenKeeps DEF Open
<1>9. ASSUME NEW l \in Loaders, Store(l) PROVE LoadsInv'
  BY <1>2, <1>9, StoreKeeps DEF Store
<1>10. ASSUME NEW l \in Loaders, Fill(l) PROVE LoadsInv'
  BY <1>2, <1>10, FillKeeps DEF Fill
<1>11. ASSUME NEW l \in Loaders, Loaded(l) PROVE LoadsInv'
  BY <1>2, <1>11, LoadedKeeps DEF Loaded
<1>12. ASSUME NEW p \in Lookups, Lookup(p) \/ LookupEnds(p) PROVE LoadsInv'
  BY <1>2, <1>12, LookupKeeps DEF Lookup, LookupEnds
<1>13. ASSUME NEW p \in Lookups, Crash(p) PROVE LoadsInv'
  BY <1>2, <1>13, CrashKeeps DEF Crash
<1>14. CASE UNCHANGED vars
  BY <1>2, <1>14, LookupKeeps DEF vars
<1> QED BY <1>3, <1>4, <1>5, <1>6, <1>7, <1>8, <1>9, <1>10, <1>11, <1>12, <1>13, <1>14
        DEF Next, Load

LEMMA ClosedInvStep ==
    ASSUME OneSlotEach, WholeDirectory, ClosedInv, [Next]_vars
    PROVE  ClosedInv'
<1>1. TypeInv' /\ Unused'
  BY TypeInvStep, UnusedStep DEF ClosedInv
<1>2. faults' = 0 => LoadsInv'
  BY LoadsInvStep DEF ClosedInv
<1> QED BY <1>1, <1>2 DEF ClosedInv

(* However the loads of the two timers overlap, and wherever the process   *)
(* dies of a reader closed under a lookup: a closed reader is in the slot  *)
(* of a file only while a load is still to store a newer one there         *)
(* (geoip.go, load), if every file is stored in one slot and none joins    *)
(* the directory later.                                                    *)
THEOREM ClosedReadersAreReplaced ==
    ASSUME OneSlotEach, WholeDirectory
    PROVE  Spec => []ClosedIsReplaced
<1>1. Init => ClosedInv
  BY ClosedInvInit
<1>2. ClosedInv /\ [Next]_vars => ClosedInv'
  BY ClosedInvStep
<1>3. ClosedInv => ClosedIsReplaced
  BY DEF ClosedInv, LoadsInv, ClosedCovered, ClosedIsReplaced
<1> QED BY <1>1, <1>2, <1>3, PTL DEF Spec
=============================================================================

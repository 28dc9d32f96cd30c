----------------------------- MODULE GeoProvider -----------------------------
(***************************************************************************)
(* The GeoIP databases of internal/geoip/geoip.go.  Four atomic slots hold *)
(* the readers lookups use.  The function load of NewFromPath closes the   *)
(* readers it finds in them, opens the files anew and stores the readers;  *)
(* it runs once at start (Main), then in the goroutine of the reload timer *)
(* and, after the files were downloaded, in that of the download timer.    *)
(* Nothing keeps loads and lookups apart.                                  *)
(*                                                                         *)
(* A reader is numbered, so that slots may share one: the fallback copies  *)
(* a reader to a slot without a file of its own.  A number that nobody     *)
(* refers to any more is used again.                                       *)
(***************************************************************************)
EXTENDS Integers, Sequences, FiniteSets

CONSTANTS
    Files,      \* files the directory may hold, numbers in order of their names
    SlotsOf,    \* file -> the slots its reader is stored in, in order
    Downloads,  \* the files cfg.GeoIP.DownloadURLs names
    InitFiles,  \* file -> its version at start, 0 if it is not there
    Main,       \* the goroutine that calls NewFromPath
    Reloader,   \* the goroutine of the reload timer
    Downloader, \* the goroutine of the download timer
    Lookups,    \* goroutines that call Lookup
    Numbers,    \* bound: numbers of readers
    MaxVersion, \* bound: versions of a file
    MaxFaults,  \* bound: files that cannot be read
    Nil

Slots == {"country4", "country6", "asn4", "asn6"}

\* The order of the slice load ranges over, and of the fallbacks.
SlotOrder     == <<"country4", "country6", "asn4", "asn6">>
Sibling(s) == CASE s = "country4" -> "country6" [] s = "country6" -> "country4"
                [] s = "asn4"     -> "asn6"     [] s = "asn6"     -> "asn4"

Loaders == {Main, Reloader, Downloader}

ASSUME ProviderAssumption ==
    /\ Files \subseteq Nat \ {0}
    /\ IsFiniteSet(Files)
    /\ SlotsOf \in [Files -> Seq(Slots)]
    /\ Downloads \subseteq Files
    /\ InitFiles \in [Files -> Nat]
    /\ Main # Reloader /\ Main # Downloader /\ Reloader # Downloader
    /\ MaxVersion \in Nat /\ MaxFaults \in Nat
    /\ Nil \notin Numbers

VARIABLES
    files,   \* file -> version on disk, 0 if it is not there
    slots,   \* slot -> number of the reader in it
    reader,  \* number -> the version of the file it has open, or Closed
    at,      \* loader -> how far it is
    using,   \* lookup -> the reader it is reading from
    phase,   \* of the provider
    faults   \* files that could not be read so far

vars == <<files, slots, reader, at, using, phase, faults>>

Closed == 0

LoadPC == {"idle", "download", "copy", "close", "open", "store", "check",
           "take", "fill", "gone"}

(***************************************************************************)
(* old: copies of the slots, whose readers are still to be closed; todo:   *)
(* files still to be opened (or downloaded); got: the reader opened, or    *)
(* loaded from the sibling; slot: the slots it is still to be stored in,   *)
(* or whose fallbacks are still to be looked at.                           *)
(***************************************************************************)
Progress == [pc : LoadPC, old : [Slots -> Numbers \cup {Nil}], todo : SUBSET Files,
             got : Numbers \cup {Nil}, slot : Seq(Slots)]

NoSlots == [s \in Slots |-> Nil]
Idle    == [pc |-> "idle", old |-> NoSlots, todo |-> {}, got |-> Nil, slot |-> <<>>]
Gone    == [Idle EXCEPT !.pc = "gone"]

TypeOK ==
    /\ files \in [Files -> Nat]
    /\ slots \in [Slots -> Numbers \cup {Nil}]
    /\ reader \in [Numbers -> Nat]
    /\ at \in [Loaders -> Progress]
    /\ using \in [Lookups -> Numbers \cup {Nil}]
    /\ phase \in {"starting", "running", "noop"}
    /\ faults \in 0 .. MaxFaults
    /\ phase = "starting" <=> at[Main] # Gone
    /\ phase # "running" => at[Reloader] = Gone /\ at[Downloader] = Gone

\* NewFromPath begins: the initial download, if nothing is there, then load.
Starting(fs) ==
    [l \in Loaders |->
        IF l # Main THEN Gone
        ELSE IF Downloads # {} /\ \A f \in Files : fs[f] = 0
             THEN [Idle EXCEPT !.pc = "download", !.todo = Downloads]
             ELSE [Idle EXCEPT !.pc = "copy"]]

Init ==
    /\ files = InitFiles
    /\ slots = NoSlots
    /\ reader = [n \in Numbers |-> Closed]
    /\ at = Starting(InitFiles)
    /\ using = [p \in Lookups |-> Nil]
    /\ phase = "starting"
    /\ faults = 0

NextFile(l) == CHOOSE f \in at[l].todo : \A g \in at[l].todo : f <= g

At(l, pc) == at[l].pc = pc
Go(l, progress) == at' = [at EXCEPT ![l] = progress]

-----------------------------------------------------------------------------
(***************************************************************************)
(* The timers.                                                             *)
(***************************************************************************)
ReloadTick ==
    /\ At(Reloader, "idle")
    /\ Go(Reloader, [Idle EXCEPT !.pc = "copy"])
    /\ UNCHANGED <<files, slots, reader, using, phase, faults>>

DownloadTick ==
    /\ At(Downloader, "idle")
    /\ Go(Downloader, [Idle EXCEPT !.pc = "download", !.todo = Downloads])
    /\ UNCHANGED <<files, slots, reader, using, phase, faults>>

\* load follows the last download, whether or not the files were fetched.
AfterDownload(todo) ==
    IF todo = {} THEN [Idle EXCEPT !.pc = "copy"]
    ELSE [Idle EXCEPT !.pc = "download", !.todo = todo]

\* A file is fetched, in the order of the URLs, and renamed over the old one;
\* one that cannot be fetched stays as it is.
Download(l) ==
    /\ At(l, "download")
    /\ LET f == NextFile(l) IN
       /\ files' = IF files[f] < MaxVersion THEN [files EXCEPT ![f] = @ + 1] ELSE files
       /\ Go(l, AfterDownload(at[l].todo \ {f}))
    /\ UNCHANGED <<slots, reader, using, phase, faults>>

DownloadFails(l) ==
    /\ At(l, "download")
    /\ faults < MaxFaults
    /\ faults' = faults + 1
    /\ Go(l, AfterDownload(at[l].todo \ {NextFile(l)}))
    /\ UNCHANGED <<files, slots, reader, using, phase>>

-----------------------------------------------------------------------------
(***************************************************************************)
(* load.                                                                   *)
(***************************************************************************)
\* The slice of the range statement holds copies of the four slots.
Copy(l) ==
    /\ At(l, "copy")
    /\ Go(l, [at[l] EXCEPT !.pc = "close", !.old = slots])
    /\ UNCHANGED <<files, slots, reader, using, phase, faults>>

ToClose(l) == {i \in 1 .. 4 : at[l].old[SlotOrder[i]] # Nil}

Close(l) ==
    /\ At(l, "close")
    /\ ToClose(l) # {}
    /\ LET s == SlotOrder[CHOOSE i \in ToClose(l) : \A j \in ToClose(l) : i <= j] IN
       /\ reader' = [reader EXCEPT ![at[l].old[s]] = Closed]
       /\ Go(l, [at[l] EXCEPT !.old[s] = Nil])
    /\ UNCHANGED <<files, slots, using, phase, faults>>

\* With all files open, the fallbacks follow.
Opening(todo) ==
    IF todo = {} THEN [Idle EXCEPT !.pc = "check", !.slot = SlotOrder]
    ELSE [Idle EXCEPT !.pc = "open", !.todo = todo]

\* The files of the directory; the file of a provider of one file is opened
\* at once.
List(l) ==
    /\ At(l, "close")
    /\ ToClose(l) = {}
    /\ Go(l, Opening({f \in Files : files[f] > 0}))
    /\ UNCHANGED <<files, slots, reader, using, phase, faults>>

\* The goroutines of the timers start.
Timers ==
    [k \in Loaders |-> IF k = Main \/ (k = Downloader /\ Downloads = {}) THEN Gone ELSE Idle]

\* Mutant: they start whether or not the first load succeeded.
EndLoadAlways(l) ==
    IF l # Main
    THEN Go(l, Idle) /\ UNCHANGED phase
    ELSE /\ at' = Timers
         /\ phase' = IF \A s \in Slots : slots[s] = Nil THEN "noop" ELSE "running"

\* How a load ends: the first one decides what NewFromPath returns.
EndLoad(l) ==
    IF l # Main
    THEN Go(l, Idle) /\ UNCHANGED phase
    ELSE IF \A s \in Slots : slots[s] = Nil
         THEN Go(l, Gone) /\ phase' = "noop"
         ELSE at' = Timers /\ phase' = "running"

\* The directory cannot be read: load returns with its readers closed.
ListFails(l) ==
    /\ At(l, "close")
    /\ ToClose(l) = {}
    /\ faults < MaxFaults
    /\ faults' = faults + 1
    /\ EndLoad(l)
    /\ UNCHANGED <<files, slots, reader, using>>

Referred ==
    {slots[s] : s \in Slots} \cup {at[l].got : l \in Loaders} \cup {using[p] : p \in Lookups}
       \cup UNION {{at[l].old[s] : s \in Slots} : l \in Loaders}

\* A file of an unknown type is opened for nothing.
Open(l) ==
    /\ At(l, "open")
    /\ Numbers \ Referred # {}
    /\ LET f == NextFile(l)
           n == CHOOSE m \in Numbers \ Referred : TRUE IN
       /\ reader' = [m \in Numbers |-> IF m = n THEN files[f]
                                      ELSE IF m \in Referred THEN reader[m] ELSE Closed]
       /\ Go(l, IF SlotsOf[f] = <<>> THEN Opening(at[l].todo \ {f})
                ELSE [at[l] EXCEPT !.pc = "store", !.todo = @ \ {f}, !.got = n,
                                   !.slot = SlotsOf[f]])
    /\ UNCHANGED <<files, slots, using, phase, faults>>

OpenFails(l) ==
    /\ At(l, "open")
    /\ faults < MaxFaults
    /\ faults' = faults + 1
    /\ Go(l, Opening(at[l].todo \ {NextFile(l)}))
    /\ UNCHANGED <<files, slots, reader, using, phase>>

AfterStore(l) ==
    IF Len(at[l].slot) = 1 THEN Opening(at[l].todo) ELSE [at[l] EXCEPT !.slot = Tail(@)]

\* Mutant: a reader is stored only where there was none.
StoreFirst(l) ==
    /\ At(l, "store")
    /\ slots' = [slots EXCEPT ![Head(at[l].slot)] = IF @ = Nil THEN at[l].got ELSE @]
    /\ Go(l, AfterStore(l))
    /\ UNCHANGED <<files, reader, using, phase, faults>>

Store(l) ==
    /\ At(l, "store")
    /\ slots' = [slots EXCEPT ![Head(at[l].slot)] = at[l].got]
    /\ Go(l, AfterStore(l))
    /\ UNCHANGED <<files, reader, using, phase, faults>>

\* An empty slot gets the reader of its sibling, in the slot's turn: both are
\* looked at, then the sibling is read again, then the slot is written.
Check(l) ==
    /\ At(l, "check")
    /\ at[l].slot # <<>>
    /\ LET s == Head(at[l].slot) IN
       Go(l, IF slots[s] = Nil /\ slots[Sibling(s)] # Nil
             THEN [at[l] EXCEPT !.pc = "take"]
             ELSE [at[l] EXCEPT !.slot = Tail(@)])
    /\ UNCHANGED <<files, slots, reader, using, phase, faults>>

Take(l) ==
    /\ At(l, "take")
    /\ Go(l, [at[l] EXCEPT !.pc = "fill", !.got = slots[Sibling(Head(at[l].slot))]])
    /\ UNCHANGED <<files, slots, reader, using, phase, faults>>

Fill(l) ==
    /\ At(l, "fill")
    /\ slots' = [slots EXCEPT ![Head(at[l].slot)] = at[l].got]
    /\ Go(l, [at[l] EXCEPT !.pc = "check", !.got = Nil, !.slot = Tail(@)])
    /\ UNCHANGED <<files, reader, using, phase, faults>>

Loaded(l) ==
    /\ At(l, "check")
    /\ at[l].slot = <<>>
    /\ EndLoad(l)
    /\ UNCHANGED <<files, slots, reader, using, faults>>

-----------------------------------------------------------------------------
(***************************************************************************)
(* Lookup.  A closed reader gives an error, and the lookup nothing.  The   *)
(* memory of a reader closed while it is read from is unmapped: the read   *)
(* ends the process, or meets whatever is mapped there by then.            *)
(***************************************************************************)
ReaderFor(s) == IF slots[s] # Nil THEN slots[s] ELSE slots[Sibling(s)]

Lookup(p) ==
    /\ phase = "running"
    /\ using[p] = Nil
    /\ \E s \in Slots :
          /\ ReaderFor(s) # Nil
          /\ reader[ReaderFor(s)] # Closed
          /\ using' = [using EXCEPT ![p] = ReaderFor(s)]
    /\ UNCHANGED <<files, slots, reader, at, phase, faults>>

LookupEnds(p) ==
    /\ using[p] # Nil
    /\ using' = [using EXCEPT ![p] = Nil]
    /\ UNCHANGED <<files, slots, reader, at, phase, faults>>

\* The process dies, and is started again.
Crash(p) ==
    /\ using[p] # Nil
    /\ reader[using[p]] = Closed
    /\ slots' = NoSlots
    /\ reader' = [n \in Numbers |-> Closed]
    /\ at' = Starting(files)
    /\ using' = [q \in Lookups |-> Nil]
    /\ phase' = "starting"
    /\ UNCHANGED <<files, faults>>

-----------------------------------------------------------------------------
\* The stop function closes a channel; a goroutine sees that between loads.
Stop(l) ==
    /\ l # Main
    /\ At(l, "idle")
    /\ Go(l, Gone)
    /\ UNCHANGED <<files, slots, reader, using, phase, faults>>

Load(l) ==
    \/ Copy(l) \/ Close(l) \/ List(l) \/ Open(l) \/ Store(l)
    \/ Check(l) \/ Take(l) \/ Fill(l) \/ Loaded(l)

Next ==
    \/ ReloadTick \/ DownloadTick
    \/ \E l \in Loaders : \/ Download(l) \/ DownloadFails(l)
                          \/ Load(l) \/ ListFails(l) \/ OpenFails(l)
                          \/ Stop(l)
    \/ \E p \in Lookups : Lookup(p) \/ LookupEnds(p) \/ Crash(p)

Spec == Init /\ [][Next]_vars

(***************************************************************************)
(* Loads and downloads return (the client of a download has a timeout),    *)
(* the reload timer goes on, lookups end.                                  *)
(***************************************************************************)
Fairness ==
    /\ \A l \in Loaders : WF_vars(Load(l) \/ Download(l))
    /\ \A p \in Lookups : WF_vars(LookupEnds(p))
    /\ WF_vars(ReloadTick)

FairSpec == Spec /\ Fairness

-----------------------------------------------------------------------------
(***************************************************************************)
(* Properties.                                                             *)
(***************************************************************************)
Stores(f, s) == \E i \in DOMAIN SlotsOf[f] : SlotsOf[f][i] = s

\* Loader l is going to store a reader opened from now on, or just opened, in s.
WillStore(l, s) ==
    \/ at[l].pc \in {"download", "copy", "close"}
    \/ at[l].pc = "open" /\ \E f \in at[l].todo : Stores(f, s)
    \/ at[l].pc = "store" /\ \E i \in DOMAIN at[l].slot : at[l].slot[i] = s
    \/ at[l].pc = "store" /\ \E f \in at[l].todo : Stores(f, s)

(* load closes readers that lookups use before it has others, and two      *)
(* loads may overlap.  Yet the reader in a slot with a file of its own is  *)
(* closed only while a load that will replace it is under way: none is     *)
(* left there, whichever load comes last.  (Of a directory whose files     *)
(* can be read.)                                                           *)
ClosedIsReplaced ==
    (phase = "running" /\ faults = 0) =>
        \A f \in Files, s \in Slots :
            (Stores(f, s) /\ slots[s] # Nil /\ reader[slots[s]] = Closed)
                => \E l \in Loaders : WillStore(l, s)

Running == phase = "running" /\ at[Reloader].pc # "gone"

Own(s)     == {f \in Files : Stores(f, s)}
Current(s) == CHOOSE f \in Own(s) : \A g \in Own(s) : g <= f

(* docs/README.md:237, hot reload: the two timers' loads overlap, fail and *)
(* store what they opened earlier, and the process may die.  Yet when the  *)
(* last download is over, no slot with a file of its own is left with a    *)
(* reader of an older file, and every one is open again and again.         *)
Newest ==
    Running => \A s \in Slots :
        Own(s) # {} => reader[slots[s]] \in {files[Current(s)], Closed}

Serving == Running => \A s \in Slots : Own(s) # {} => reader[slots[s]] # Closed

EventuallyNewest == <>[]Newest /\ []<>Serving

(* geoip.go:178: a database is the fallback for the IP version that has    *)
(* none: between loads, if every file could be read, lookups of either     *)
(* version find open readers.                                              *)
NoLoad == \A l \in Loaders : at[l].pc \in {"idle", "gone"}

FallbackServed ==
    (phase = "running" /\ NoLoad /\ faults = 0) =>
        \A s \in Slots : slots[s] # Nil => reader[slots[s]] # Closed
=============================================================================

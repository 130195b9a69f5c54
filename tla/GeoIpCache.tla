------------------------------ MODULE GeoIpCache ------------------------------
(***************************************************************************)
(* create_geoip_from_url of core/src/config/engine/geoip.rs: a GeoIP       *)
(* database is downloaded to a file named after its URL, which is used     *)
(* again, by memory mapping it, until it is older than update_interval.    *)
(*                                                                         *)
(* The calls of one process run on one thread and interleave at the awaits *)
(* of the download only; the check of the file's age, and the write with   *)
(* the opening after it, are one step each.  The process may crash at any  *)
(* point, also in the middle of fs::write, which truncates the file first. *)
(* The content of a complete file is the version the server had.           *)
(***************************************************************************)
EXTENDS Integers

CONSTANTS
    Call,            \* the calls of the program for one URL
    UpdateInterval,  \* in ticks
    Versions,        \* how many versions the server has, one after another
    MaxFaults,       \* how many writes leave no database
    MaxSteps         \* how often the clock is set back

ASSUME BoundAssumption ==
    /\ UpdateInterval \in Nat
    /\ Versions \in Nat \ {0}
    /\ MaxFaults \in Nat
    /\ MaxSteps \in Nat

VARIABLES
    content,   \* of the file: a version, or one of the next two
    age,       \* of the file, capped at UpdateInterval; -1: it is from the future
    latest,    \* the version the server has now
    call,      \* where a call is
    opened,    \* the version a reader found when it opened the file
    faults,    \* history: writes that left no database
    steps      \* history: how often the clock was set back

geo_vars == <<content, age, latest, call, opened, faults, steps>>

Absent == -1
Partial == 0
Version == 1 .. Versions

GeoTypeOK ==
    /\ content \in Version \cup {Absent, Partial}
    /\ age \in -1 .. UpdateInterval
    /\ latest \in Version
    /\ call \in [Call -> {"idle", "downloading", "reading", "download_error",
                          "write_error", "open_error", "clock_error"}]
    /\ opened \in [Call -> Version \cup {Absent}]
    /\ faults \in 0 .. MaxFaults
    /\ steps \in 0 .. MaxSteps

GeoInit ==
    /\ content = Absent
    /\ age = 0
    /\ latest = 1
    /\ call = [c \in Call |-> "idle"]
    /\ opened = [c \in Call |-> Absent]
    /\ faults = 0
    /\ steps = 0

-----------------------------------------------------------------------------
Goes(c, state, version) ==
    /\ call' = [call EXCEPT ![c] = state]
    /\ opened' = [opened EXCEPT ![c] = version]

\* Mutant of Fresh: any file will do.
FreshForever == content # Absent

Fresh == content # Absent /\ age \in 0 .. UpdateInterval - 1

\* Reader::open_mmap: a partial file has no metadata at its end.
OpenCached(c) ==
    /\ call[c] = "idle"
    /\ Fresh
    /\ IF content = Partial THEN Goes(c, "open_error", Absent) ELSE Goes(c, "reading", content)
    /\ UNCHANGED <<content, age, latest, faults, steps>>

\* modified.elapsed() fails for a file from the future, and so does the call.
ElapsedFails(c) ==
    /\ call[c] = "idle"
    /\ content # Absent /\ age < 0
    /\ Goes(c, "clock_error", Absent)
    /\ UNCHANGED <<content, age, latest, faults, steps>>

\* There is no file, or it is too old: connect and send the request.
StartDownload(c) ==
    /\ call[c] = "idle"
    /\ ~Fresh
    /\ content = Absent \/ age >= 0
    /\ Goes(c, "downloading", Absent)
    /\ UNCHANGED <<content, age, latest, faults, steps>>

\* Connecting, the handshake, the request, its status or the body.
DownloadFails(c) ==
    /\ call[c] = "downloading"
    /\ Goes(c, "download_error", Absent)
    /\ UNCHANGED <<content, age, latest, faults, steps>>

\* Mutant of BodyArrives: the write is asynchronous, so that another call may
\* run when the file is truncated.
BodyArrivesSlowly(c) ==
    /\ call[c] = "downloading"
    /\ content' = IF content = Partial THEN latest ELSE Partial
    /\ age' = 0
    /\ IF content = Partial THEN Goes(c, "reading", latest) ELSE UNCHANGED <<call, opened>>
    /\ UNCHANGED <<latest, faults, steps>>

\* The body is there: write the file over the one that exists and open it.
BodyArrives(c) ==
    /\ call[c] = "downloading"
    /\ content' = latest
    /\ age' = 0
    /\ Goes(c, "reading", latest)
    /\ UNCHANGED <<latest, faults, steps>>

\* fs::write fails after it has truncated the file.
WriteFails(c) ==
    /\ call[c] = "downloading"
    /\ faults < MaxFaults
    /\ content' = Partial
    /\ age' = 0
    /\ Goes(c, "write_error", Absent)
    /\ faults' = faults + 1
    /\ UNCHANGED <<latest, steps>>

\* The body is not a whole database: it is written all the same, and cannot
\* be opened.
BodyIsNoDatabase(c) ==
    /\ call[c] = "downloading"
    /\ faults < MaxFaults
    /\ content' = Partial
    /\ age' = 0
    /\ Goes(c, "open_error", Absent)
    /\ faults' = faults + 1
    /\ UNCHANGED <<latest, steps>>

-----------------------------------------------------------------------------
(* The program around it. *)

\* The caller drops the reader, or gives up, and may call again.
Forget(c) ==
    /\ call[c] \notin {"idle", "downloading"}
    /\ Goes(c, "idle", Absent)
    /\ UNCHANGED <<content, age, latest, faults, steps>>

\* The process ends and is started again.
Restart ==
    /\ \E c \in Call : call[c] # "idle"
    /\ call' = [c \in Call |-> "idle"]
    /\ opened' = [c \in Call |-> Absent]
    /\ UNCHANGED <<content, age, latest, faults, steps>>

\* The process ends while a call is in fs::write.
CrashInWrite ==
    /\ \E c \in Call : call[c] = "downloading"
    /\ faults < MaxFaults
    /\ content' = Partial
    /\ age' = 0
    /\ call' = [c \in Call |-> "idle"]
    /\ opened' = [c \in Call |-> Absent]
    /\ faults' = faults + 1
    /\ UNCHANGED <<latest, steps>>

Tick ==
    /\ content # Absent
    /\ age < UpdateInterval
    /\ age' = age + 1
    /\ UNCHANGED <<content, latest, call, opened, faults, steps>>

\* The clock is set back, to before the file was written.
ClockBack ==
    /\ content # Absent
    /\ steps < MaxSteps
    /\ age' = -1
    /\ steps' = steps + 1
    /\ UNCHANGED <<content, latest, call, opened, faults>>

Publish ==
    /\ latest < Versions
    /\ latest' = latest + 1
    /\ UNCHANGED <<content, age, call, opened, faults, steps>>

GeoNext ==
    \/ \E c \in Call :
         \/ OpenCached(c) \/ ElapsedFails(c) \/ StartDownload(c) \/ DownloadFails(c)
         \/ BodyArrives(c) \/ BodyIsNoDatabase(c) \/ WriteFails(c) \/ Forget(c)
    \/ Restart \/ CrashInWrite \/ Tick \/ ClockBack \/ Publish

GeoSpec == GeoInit /\ [][GeoNext]_geo_vars

\* Time passes, a call that failed is made again in the end, and a
\* download that is tried over and over succeeds.
FairSpec ==
    /\ GeoSpec
    /\ WF_geo_vars(Tick)
    /\ \A c \in Call :
         /\ WF_geo_vars(OpenCached(c) \/ ElapsedFails(c) \/ StartDownload(c))
         /\ WF_geo_vars(call[c] # "reading" /\ Forget(c))
         /\ SF_geo_vars(BodyArrives(c))

-----------------------------------------------------------------------------
(***************************************************************************)
(* A call that cannot open the file has a write before it that was cut     *)
(* short or had no database to write: calls that run at the same time      *)
(* never see each other's half-written file, since fs::write and open_mmap *)
(* have no await between them.                                             *)
(***************************************************************************)
OpenFailsOnlyAfterBadWrite ==
    (\E c \in Call : call[c] = "open_error") => faults > 0

(***************************************************************************)
(* A caller that tries again gets a database in the end.  A file that was  *)
(* left half-written is taken for fresh at first, and one from before the  *)
(* clock was set back has no age, and every call fails; but neither stays  *)
(* so: when update_interval has passed the file is downloaded again.       *)
(***************************************************************************)
EveryCallerIsServed == \A c \in Call : call[c] # "reading" ~> call[c] = "reading"

(***************************************************************************)
(* "The mmap'd file is not modified while the reader is in use."           *)
(***************************************************************************)
NotModifiedWhileInUse ==
    \A c \in Call : call[c] = "reading" => content = opened[c]

=============================================================================

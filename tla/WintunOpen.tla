----------------------------- MODULE WintunOpen -----------------------------
(***************************************************************************)
(* Opening, using and reopening the network device on Windows: tuntap_open *)
(* with its choice between wintun_open and open_wintap, the configuration  *)
(* of the address with retries, the reader thread that closes and reopens  *)
(* the device after an error.                                              *)
(*                                                                         *)
(* A wintun context is known by its number.  The system's adapters are the *)
(* own one, which shows up some time after it was created, and possibly a  *)
(* TAP adapter of the same name.  Both have an index once they are there.  *)
(***************************************************************************)
EXTENDS Integers, FiniteSets

CONSTANTS Tries,          \* max_retries in ConfigureIpAddress
          MaxContexts     \* bound: contexts allocated

\* what is assumed of the constants
BoundsPositive == Tries \in Nat \ {0} /\ MaxContexts \in Nat \ {0}

Own == "own"
Tap == "tap"
NoIdx == "none"           \* if_idx <= 0

Null == 0
Invalid == -1             \* INVALID_HANDLE_VALUE
TapHandle == -2           \* a TAP adapter's handle

VARIABLES
    started,      \* the first tuntap_open succeeded
    tapNamed,     \* a TAP adapter has the name of the device
    prefer,       \* prefer_wintun
    present,      \* the own adapter is in the system's list
    handle,       \* device_handle
    using,        \* using_wintun
    live,         \* contexts that are allocated
    used,         \* number of contexts so far
    pc,           \* what the reader thread does: opening, reading, closing
    luid,         \* the adapter's LUID is known
    ctx, idx,     \* wintun_open's context, and its if_idx
    opened,       \* handles that wintun_open holds: subset of {"adapter", "session"}
    try, cur      \* ConfigureIpAddress: attempt and if_idx

wvars == <<ctx, luid, idx, opened, try, cur>>
dvars == <<handle, using, live, used>>
vars == <<started, tapNamed, prefer, present, dvars, pc, wvars>>

Init ==
    /\ started = FALSE /\ tapNamed \in BOOLEAN /\ prefer \in BOOLEAN
    /\ present = FALSE
    /\ handle = Null /\ using = FALSE /\ live = {} /\ used = 0
    /\ pc = "choose" /\ luid = FALSE /\ ctx = Null /\ idx = NoIdx /\ opened = {}
    /\ try = 0 /\ cur = NoIdx

Step(from, to) == pc = from /\ pc' = to

-----------------------------------------------------------------------------
(* tuntap_open                                                             *)

\* the preferred driver first, if it is there
TryWintun ==
    /\ pc = "choose" /\ pc' \in IF prefer THEN {"load", "tap"} ELSE {"tap"}
    /\ UNCHANGED <<started, tapNamed, prefer, present, dvars, wvars>>

\* open_wintap finds a TAP adapter and configures it; only then the flag changes
OpenTapFound ==
    /\ Step("tap", "tapset")
    /\ tapNamed
    /\ handle' = TapHandle
    /\ UNCHANGED <<started, tapNamed, prefer, present, using, live, used, wvars>>

\* the wrong version that leaves the flag alone
OpenTapKeepsFlag ==
    /\ Step("tapset", "run") /\ started' = TRUE
    /\ UNCHANGED <<tapNamed, prefer, present, dvars, wvars>>

OpenTapDone ==
    /\ Step("tapset", "run") /\ started' = TRUE
    /\ using' = FALSE
    /\ UNCHANGED <<tapNamed, prefer, present, handle, live, used, wvars>>

\* ... or resets the device and fails; then wintun is tried unless it was
\* before, or is not available
OpenTapFails ==
    /\ pc = "tap" /\ pc' \in IF prefer THEN {"failed"} ELSE {"load", "failed"}
    /\ handle' = Invalid
    /\ UNCHANGED <<started, tapNamed, prefer, present, using, live, used, wvars>>

-----------------------------------------------------------------------------
(* wintun_open                                                             *)

AfterFailure == IF prefer THEN "tap" ELSE "failed"

\* "goto cleanup" before and after the adapter is there: without an adapter
\* the context stays allocated
Cleanup(to) ==
    /\ pc' = to
    /\ opened' = {}
    /\ live' = IF "adapter" \in opened THEN live \ {ctx} ELSE live
    /\ ctx' = Null

\* the library is loaded, once
InitializeWintun ==
    /\ pc = "load" /\ handle' = Null
    /\ pc' \in IF started /\ using THEN {"context"} ELSE {"context", AfterFailure}
    /\ UNCHANGED <<started, tapNamed, prefer, present, using, live, used, wvars>>

NewContext ==
    /\ Step("context", "adapter") /\ used < MaxContexts
    /\ used' = used + 1 /\ ctx' = used' /\ live' = live \cup {used'}
    /\ UNCHANGED <<started, tapNamed, prefer, present, handle, using, luid, idx, opened, try, cur>>

\* an existing adapter, or a new one that may take some time to show up
OpenAdapter ==
    /\ pc = "adapter"
    /\ \/ Cleanup(AfterFailure) /\ UNCHANGED luid
       \/ /\ pc' = "index" /\ opened' = {"adapter"} /\ luid' \in BOOLEAN
          /\ UNCHANGED <<live, ctx>>
    /\ UNCHANGED <<started, tapNamed, prefer, present, handle, using, used, idx, try, cur>>

Appears ==
    /\ "adapter" \in opened /\ ~present /\ present' = TRUE
    /\ UNCHANGED <<started, tapNamed, prefer, dvars, pc, wvars>>

\* GetAdapterInfoByLuid
ByLuid == IF present THEN Own ELSE NoIdx

\* GetAdapterFriendlyName: a wintun adapter of the name, or else any
ByFriendlyName == IF present THEN Own ELSE IF tapNamed THEN Tap ELSE NoIdx

Lookup == IF luid /\ ByLuid # NoIdx THEN ByLuid ELSE ByFriendlyName

\* GetIfIndexByName: the first adapter of the name, in the system's order
ByName == (IF present THEN {Own} ELSE {}) \cup (IF tapNamed THEN {Tap} ELSE {})

FindIndex ==
    /\ Step("index", "session")
    /\ idx' = Lookup
    /\ UNCHANGED <<started, tapNamed, prefer, present, dvars, ctx, luid, opened, try, cur>>

\* the session and its event
StartSession ==
    /\ pc = "session"
    /\ \/ Cleanup(AfterFailure) /\ UNCHANGED <<try, cur>>
       \/ /\ opened' = {"adapter", "session"}
          /\ try' = 0 /\ cur' = idx
          /\ pc' = IF idx = NoIdx THEN "netsh" ELSE "api"
          /\ UNCHANGED <<live, ctx>>
    /\ UNCHANGED <<started, tapNamed, prefer, present, handle, using, used, luid, idx>>

Exists(i) == i = Tap \/ (i = Own /\ present)

\* AddIPAddress and the check that the address is there; when it fails the
\* index is looked up again, by name
ConfigureApi ==
    /\ pc = "api"
    /\ \/ /\ Exists(cur)
          /\ pc' = "ready"
          /\ UNCHANGED <<try, cur>>
       \/ /\ try < Tries - 1 /\ try' = try + 1 /\ pc' = "api"
          /\ \/ ByName = {} /\ cur' = cur
             \/ cur' \in ByName
       \/ /\ try = Tries - 1 /\ try' = 0 /\ pc' = "netsh" /\ UNCHANGED cur
    /\ UNCHANGED <<started, tapNamed, prefer, present, dvars, ctx, luid, idx, opened>>

\* netsh by index, or by name when there is no index
ConfigureNetsh ==
    /\ pc = "netsh"
    /\ \/ /\ pc' = "ready" /\ UNCHANGED <<try, cur>>
          /\ \E i \in IF cur = NoIdx THEN ByName ELSE {cur} : Exists(i)
       \/ /\ try < Tries - 1 /\ try' = try + 1 /\ pc' = "netsh"
          /\ \/ (cur # NoIdx \/ ByName = {}) /\ cur' = cur
             \/ cur = NoIdx /\ cur' \in ByName
       \/ try = Tries - 1 /\ pc' = "ready" /\ UNCHANGED <<try, cur>>
    /\ UNCHANGED <<started, tapNamed, prefer, present, dvars, ctx, luid, idx, opened>>

\* without an index one is looked for by name again; the device is handed over
Ready ==
    /\ Step("ready", "run")
    /\ \/ (idx # NoIdx \/ ByName = {}) /\ idx' = idx
       \/ idx = NoIdx /\ idx' \in ByName
    /\ handle' = ctx /\ using' = TRUE /\ started' = TRUE
    /\ UNCHANGED <<tapNamed, prefer, present, live, used, ctx, luid, opened, try, cur>>

-----------------------------------------------------------------------------
(* The reader thread while the edge runs.                                  *)

\* the first tuntap_open has to succeed, or the edge does not start; later
\* its result is not looked at
Failed ==
    /\ pc = "failed"
    /\ pc' = IF started THEN "run" ELSE "stopped"
    /\ UNCHANGED <<started, tapNamed, prefer, present, dvars, wvars>>

\* wintun_close and CloseHandle
wintun_close ==
    /\ live' = IF handle \in live THEN live \ {handle} ELSE live
    /\ handle' = Null

\* edge_read_from_tap gets an error: the device is closed and opened again
ReadError ==
    /\ pc = "run" /\ used < MaxContexts
    /\ pc' = "choose"
    /\ IF using THEN wintun_close ELSE UNCHANGED <<live, handle>>
    /\ ctx' = Null /\ opened' = {} /\ idx' = NoIdx /\ luid' = FALSE /\ try' = 0 /\ cur' = NoIdx
    /\ present' = FALSE
    /\ UNCHANGED <<started, tapNamed, prefer, using, used>>

OpenWintun == InitializeWintun \/ NewContext \/ OpenAdapter \/ FindIndex \/ StartSession \/ ConfigureApi \/ ConfigureNetsh \/ Ready

Reader == TryWintun \/ OpenTapFound \/ OpenTapDone \/ OpenTapFails \/ OpenWintun \/ Failed \/ ReadError

Next == Reader \/ Appears

Spec == Init /\ [][Next]_vars /\ WF_vars(Reader)

-----------------------------------------------------------------------------
(* What is checked.                                                        *)

TypeOK ==
    /\ handle \in {Null, Invalid, TapHandle} \cup 1..MaxContexts
    /\ live \subseteq 1..used /\ used \in 0..MaxContexts
    /\ idx \in {NoIdx, Own, Tap} /\ cur \in {NoIdx, Own, Tap}
    /\ try \in 0..(Tries - 1)
    /\ opened \subseteq {"adapter", "session"}

\* When tuntap_open has succeeded, the flag that chooses between the drivers
\* fits the handle, whichever driver was used before the device was reopened.
DriverMatches == pc = "run" => (handle = TapHandle => ~using) /\ (handle \in live => using)

\* With the LUID an adapter that is there is found, whatever else has its name.
LuidFirstStep == pc = "index" /\ pc' = "session" /\ luid /\ present => idx' = Own

\* A failed wintun_open leaves neither the session nor the adapter open.
FailureCloses == pc \in {"choose", "load", "context", "tap", "failed", "stopped"} => opened = {}

\* However often the configuration of the address fails, tuntap_open ends.
OpenEnds == pc = "choose" ~> pc \in {"run", "stopped"}

=============================================================================

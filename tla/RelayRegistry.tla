--------------------------- MODULE RelayRegistry ---------------------------
(***************************************************************************)
(* The relay's connections: enrolment and resume, the registry s.conns,    *)
(* promotion of a connection to ready, admin approve and deny, teardown.   *)
(*                                                                         *)
(* Every connection has its own goroutine (handleWS); the label at[c] says *)
(* where it is.  One step is one access to state that goroutines share:    *)
(* the devices table (one SQL statement), s.conns (one hold of s.mu), the  *)
(* atomic c.ready, the config's admin list.  A connection's socket can die *)
(* at any moment; the goroutine finds out when it next reads.              *)
(*                                                                         *)
(* Conn is a pool of slots: a slot is reused when its goroutine has ended  *)
(* and no other goroutine holds a pointer to the connection.               *)
(***************************************************************************)
EXTENDS Naturals, FiniteSets

CONSTANTS
    Device,            \* device ids (each the hash of a signing key)
    Conn,              \* connection slots
    ApprovalSettings,  \* values require_admin_approval can have at a start
    None

ASSUME RegistryAssumption ==
    /\ None \notin Device /\ None \notin Conn
    /\ ApprovalSettings # {} /\ ApprovalSettings \subseteq BOOLEAN

VARIABLES
    \* durable
    state,     \* devices.state, "absent" when there is no row
    isAdmin,   \* devices.admin
    admins,    \* Config.AdminDevices, saved whenever it grows
    \* in memory
    approval,  \* Config.RequireAdminApproval
    conns,     \* Server.conns
    at,        \* where each connection's goroutine is
    deviceID,  \* conn.deviceID (None until the handshake says who it is)
    entry,     \* conn.entry: its state and admin flag as last read or computed
    ready,     \* conn.ready
    admin,     \* conn.admin
    open,      \* the websocket is open and the context not cancelled
    greeted,   \* afterReady has run for this connection
    first,     \* enrollDevice's firstDevice
    job        \* handleAdminAction's locals: action, target, updated, tc

durable == <<state, isAdmin, admins>>
connVars == <<at, deviceID, entry, ready, admin, open, greeted, first, job>>
vars == <<state, isAdmin, admins, approval, conns, at, deviceID, entry, ready,
          admin, open, greeted, first, job>>

Handshake == {"resume", "counted", "addAdmin", "admit"}
AdminSteps == {"decide", "reload", "promote", "mark", "welcome", "kick", "close"}
Serving == {"added", "greet", "serve"} \cup AdminSteps

Entry == [state : {"absent", "pending", "active", "denied"}, admin : BOOLEAN]
NoEntry == [state |-> "absent", admin |-> FALSE]
NoJob == [action |-> "none", target |-> None, updated |-> NoEntry, tc |-> None]

Row(d) == [state |-> state[d], admin |-> isAdmin[d]]

Init ==
    /\ state = [d \in Device |-> "absent"]
    /\ isAdmin = [d \in Device |-> FALSE]
    /\ admins = {}
    /\ approval \in ApprovalSettings
    /\ conns = [d \in Device |-> None]
    /\ at = [c \in Conn |-> "free"]
    /\ deviceID = [c \in Conn |-> None]
    /\ entry = [c \in Conn |-> NoEntry]
    /\ ready = [c \in Conn |-> FALSE]
    /\ admin = [c \in Conn |-> FALSE]
    /\ open = [c \in Conn |-> FALSE]
    /\ greeted = [c \in Conn |-> FALSE]
    /\ first = [c \in Conn |-> FALSE]
    /\ job = [c \in Conn |-> NoJob]

Goto(c, l) == at' = [at EXCEPT ![c] = l]

-----------------------------------------------------------------------------
(* Handshake *)

\* A client connects, proves the passphrase and names a device: with its
\* device_id it resumes, without one it enrols (the relay derives the id from
\* the key, so d is fixed here).  A client that fails an earlier check of the
\* handshake changes nothing.
Connect(c, d, l) ==
    /\ at[c] = "free"
    /\ Goto(c, l)
    /\ deviceID' = [deviceID EXCEPT ![c] = d]
    /\ open' = [open EXCEPT ![c] = TRUE]
    /\ UNCHANGED <<durable, approval, conns, entry, ready, admin, greeted, first, job>>

Reset(c) ==
    /\ Goto(c, "free")
    /\ deviceID' = [deviceID EXCEPT ![c] = None]
    /\ entry' = [entry EXCEPT ![c] = NoEntry]
    /\ ready' = [ready EXCEPT ![c] = FALSE]
    /\ admin' = [admin EXCEPT ![c] = FALSE]
    /\ open' = [open EXCEPT ![c] = FALSE]
    /\ greeted' = [greeted EXCEPT ![c] = FALSE]
    /\ first' = [first EXCEPT ![c] = FALSE]
    /\ job' = [job EXCEPT ![c] = NoJob]

\* The handshake fails: the peer is gone, a send fails, or resumeDevice
\* refuses an unknown or a denied device.
AbortHandshake(c) ==
    /\ \/ at[c] \in Handshake \cup {"enroll"} /\ ~open[c]
       \/ at[c] = "admit" /\ entry[c].state \in {"absent", "denied"}
    /\ Reset(c)
    /\ UNCHANGED <<durable, approval, conns>>

\* resumeDevice: read the device's row.
ResumeRead(c) ==
    /\ at[c] = "resume"
    /\ entry' = [entry EXCEPT ![c] = Row(deviceID[c])]
    /\ Goto(c, "admit")
    /\ UNCHANGED <<durable, approval, conns, deviceID, ready, admin, open, greeted, first, job>>

\* enrollDevice: countDevices.
EnrollCount(c) ==
    /\ at[c] = "enroll"
    /\ first' = [first EXCEPT ![c] = \A d \in Device : state[d] = "absent"]
    /\ Goto(c, "counted")
    /\ UNCHANGED <<durable, approval, conns, deviceID, entry, ready, admin, open, greeted, job>>

\* The entry enrollDevice computes, whatever the table already says.
FirstAlsoWaitsMutant(c) == [state |-> IF approval THEN "pending" ELSE "active",
                            admin |-> first[c]]
Computed(c) == [state |-> IF approval /\ ~first[c] THEN "pending" ELSE "active",
                admin |-> first[c]]

\* upsertDevice: INSERT ... ON CONFLICT keeps the state and admin flag of an
\* existing row.
ForgetAdminListMutant(c) ==
    /\ at[c] = "counted"
    /\ LET d == deviceID[c] IN
       /\ entry' = [entry EXCEPT ![c] = Computed(c)]
       /\ IF state[d] = "absent"
          THEN /\ state' = [state EXCEPT ![d] = Computed(c).state]
               /\ isAdmin' = [isAdmin EXCEPT ![d] = Computed(c).admin]
          ELSE UNCHANGED <<state, isAdmin>>
    /\ first' = [first EXCEPT ![c] = FALSE]   \* not read again
    /\ Goto(c, "admit")
    /\ UNCHANGED <<admins, approval, conns, deviceID, ready, admin, open, greeted, job>>
OverwriteStateMutant(c) ==
    /\ at[c] = "counted"
    /\ entry' = [entry EXCEPT ![c] = Computed(c)]
    /\ state' = [state EXCEPT ![deviceID[c]] = Computed(c).state]
    /\ isAdmin' = [isAdmin EXCEPT ![deviceID[c]] = Computed(c).admin]
    /\ first' = [first EXCEPT ![c] = FALSE]
    /\ Goto(c, IF first[c] THEN "addAdmin" ELSE "admit")
    /\ UNCHANGED <<admins, approval, conns, deviceID, ready, admin, open, greeted, job>>
EnrollUpsert(c) ==
    /\ at[c] = "counted"
    /\ LET d == deviceID[c] IN
       /\ entry' = [entry EXCEPT ![c] = Computed(c)]
       /\ IF state[d] = "absent"
          THEN /\ state' = [state EXCEPT ![d] = Computed(c).state]
               /\ isAdmin' = [isAdmin EXCEPT ![d] = Computed(c).admin]
          ELSE UNCHANGED <<state, isAdmin>>
    /\ first' = [first EXCEPT ![c] = FALSE]   \* not read again
    /\ Goto(c, IF first[c] THEN "addAdmin" ELSE "admit")
    /\ UNCHANGED <<admins, approval, conns, deviceID, ready, admin, open, greeted, job>>

\* Under cfgMu: AddAdmin and Save.
EnrollAddAdmin(c) ==
    /\ at[c] = "addAdmin"
    /\ admins' = admins \cup {deviceID[c]}
    /\ Goto(c, "admit")
    /\ UNCHANGED <<state, isAdmin, approval, conns, deviceID, entry, ready, admin, open, greeted, first, job>>

\* markReady(t, e), run by t's own goroutine or by an approving admin's.
MarkReady(t, e) ==
    /\ entry' = [entry EXCEPT ![t] = e]
    /\ admin' = [admin EXCEPT ![t] = deviceID[t] \in admins \/ e.admin]
    /\ ready' = [ready EXCEPT ![t] = TRUE]

\* The handshake succeeds: an active device is marked ready, a pending one is
\* told to wait (sends to a socket that just died may still succeed).
Admit(c) ==
    /\ at[c] = "admit" /\ entry[c].state \in {"active", "pending"}
    /\ IF entry[c].state = "active" THEN MarkReady(c, entry[c])
                                    ELSE UNCHANGED <<entry, admin, ready>>
    /\ Goto(c, "add")
    /\ UNCHANGED <<durable, approval, conns, deviceID, open, greeted, first, job>>

-----------------------------------------------------------------------------
(* Registry *)

\* addConn: a second login for the same device closes and replaces the first.
KeepOldOpenMutant(c) ==
    /\ at[c] = "add"
    /\ conns' = [conns EXCEPT ![deviceID[c]] = c]
    /\ open' = open
    /\ Goto(c, "added")
    /\ UNCHANGED <<durable, approval, deviceID, entry, ready, admin, greeted, first, job>>
AddConn(c) ==
    /\ at[c] = "add"
    /\ conns' = [conns EXCEPT ![deviceID[c]] = c]
    /\ open' = [k \in Conn |-> open[k] /\ k # conns[deviceID[c]]]
    /\ Goto(c, "added")
    /\ UNCHANGED <<durable, approval, deviceID, entry, ready, admin, greeted, first, job>>

\* handleWS after addConn: if c.isReady() { afterReady(c) }.
CheckReady(c) ==
    /\ at[c] = "added"
    /\ Goto(c, IF ready[c] THEN "greet" ELSE "serve")
    /\ UNCHANGED <<durable, approval, conns, deviceID, entry, ready, admin, open, greeted, first, job>>

Greet(c) ==
    /\ at[c] = "greet"
    /\ greeted' = [greeted EXCEPT ![c] = TRUE]
    /\ Goto(c, "serve")
    /\ UNCHANGED <<durable, approval, conns, deviceID, entry, ready, admin, open, first, job>>

\* readLoop returns on a read error; the deferred removeConn only deletes the
\* entry if it is still this connection's.  What the rest of the teardown
\* broadcasts belongs to the presence of the device.
RemoveAnyMutant(c) ==
    /\ at[c] = "serve" /\ ~open[c]
    /\ conns' = [conns EXCEPT ![deviceID[c]] = None]
    /\ Goto(c, "done")
    /\ UNCHANGED <<durable, approval, deviceID, entry, ready, admin, open, greeted, first, job>>
NotMineMutant(c) ==
    /\ at[c] = "serve" /\ ~open[c]
    /\ conns' = IF conns[deviceID[c]] # c
                THEN [conns EXCEPT ![deviceID[c]] = None] ELSE conns
    /\ Goto(c, "done")
    /\ UNCHANGED <<durable, approval, deviceID, entry, ready, admin, open, greeted, first, job>>
RemoveConn(c) ==
    /\ at[c] = "serve" /\ ~open[c]
    /\ conns' = IF conns[deviceID[c]] = c
                THEN [conns EXCEPT ![deviceID[c]] = None] ELSE conns
    /\ Goto(c, "done")
    /\ UNCHANGED <<durable, approval, deviceID, entry, ready, admin, open, greeted, first, job>>

\* The slot of a connection that ended is free once nothing points to it.
Recycle(c) ==
    /\ at[c] = "done" /\ \A a \in Conn : job[a].tc # c
    /\ Reset(c)
    /\ UNCHANGED <<durable, approval, conns>>

\* The client goes away, or a heartbeat ping gets no answer.
Drop(c) ==
    /\ open[c]
    /\ open' = [open EXCEPT ![c] = FALSE]
    /\ UNCHANGED <<durable, approval, conns, at, deviceID, entry, ready, admin, greeted, first, job>>

-----------------------------------------------------------------------------
(* handleAdminAction, on the goroutine of the admin's connection a *)

\* requireReady, c.admin, the signature, then getDevice(target) must say
\* pending.
AdminBegin(a, action, d) ==
    /\ at[a] = "serve" /\ ready[a] /\ admin[a]
    /\ state[d] = "pending"
    /\ job' = [job EXCEPT ![a] = [NoJob EXCEPT !.action = action, !.target = d]]
    /\ Goto(a, "decide")
    /\ UNCHANGED <<durable, approval, conns, deviceID, entry, ready, admin, open, greeted, first>>

\* setDeviceState
AdminDecide(a) ==
    /\ at[a] = "decide"
    /\ IF job[a].action = "approve"
       THEN state' = [state EXCEPT ![job[a].target] = "active"] /\ Goto(a, "reload")
       ELSE state' = [state EXCEPT ![job[a].target] = "denied"] /\ Goto(a, "kick")
    /\ UNCHANGED <<isAdmin, admins, approval, conns, deviceID, entry, ready, admin, open, greeted, first, job>>

\* updated, _ := getDevice(target), and the directory broadcast.
AdminReload(a) ==
    /\ at[a] = "reload"
    /\ job' = [job EXCEPT ![a].updated = Row(job[a].target)]
    /\ Goto(a, "promote")
    /\ UNCHANGED <<durable, approval, conns, deviceID, entry, ready, admin, open, greeted, first>>

KeepJobMutant(a) == Goto(a, "serve") /\ job' = job
EndJob(a) == Goto(a, "serve") /\ job' = [job EXCEPT ![a] = NoJob]

\* lookupConn(target), and !tc.isReady().
PromoteReadyMutant(a) ==
    /\ at[a] = "promote"
    /\ LET tc == conns[job[a].target] IN
       IF tc # None /\ ready[tc]
       THEN job' = [job EXCEPT ![a].tc = tc] /\ Goto(a, "mark")
       ELSE EndJob(a)
    /\ UNCHANGED <<durable, approval, conns, deviceID, entry, ready, admin, open, greeted, first>>
AdminLookup(a) ==
    /\ at[a] = "promote"
    /\ LET tc == conns[job[a].target] IN
       IF tc # None /\ ~ready[tc]
       THEN job' = [job EXCEPT ![a].tc = tc] /\ Goto(a, "mark")
       ELSE EndJob(a)
    /\ UNCHANGED <<durable, approval, conns, deviceID, entry, ready, admin, open, greeted, first>>

NoWelcomeMutant(a) ==
    /\ at[a] = "mark"
    /\ MarkReady(job[a].tc, job[a].updated)
    /\ EndJob(a)
    /\ UNCHANGED <<durable, approval, conns, deviceID, open, greeted, first>>
AdminMark(a) ==
    /\ at[a] = "mark"
    /\ MarkReady(job[a].tc, job[a].updated)
    /\ Goto(a, "welcome")
    /\ UNCHANGED <<durable, approval, conns, deviceID, open, greeted, first, job>>

\* afterReady(tc), on the admin's goroutine.
AdminWelcome(a) ==
    /\ at[a] = "welcome"
    /\ greeted' = [greeted EXCEPT ![job[a].tc] = TRUE]
    /\ EndJob(a)
    /\ UNCHANGED <<durable, approval, conns, deviceID, entry, ready, admin, open, first>>

\* deny: lookupConn(target), then send the error and close what it found.
DenyLookup(a) ==
    /\ at[a] = "kick"
    /\ LET tc == conns[job[a].target] IN
       IF tc # None THEN job' = [job EXCEPT ![a].tc = tc] /\ Goto(a, "close") ELSE EndJob(a)
    /\ UNCHANGED <<durable, approval, conns, deviceID, entry, ready, admin, open, greeted, first>>

DenyClose(a) ==
    /\ at[a] = "close"
    /\ open' = [open EXCEPT ![job[a].tc] = FALSE]
    /\ EndJob(a)
    /\ UNCHANGED <<durable, approval, conns, deviceID, entry, ready, admin, greeted, first>>

-----------------------------------------------------------------------------
\* The relay process dies, or is stopped, and starts again on the same data
\* directory, perhaps with require_admin_approval edited: only the devices
\* table and the saved admin list survive.
Restart ==
    /\ approval' \in ApprovalSettings
    /\ conns' = [d \in Device |-> None]
    /\ at' = [c \in Conn |-> "free"]
    /\ deviceID' = [c \in Conn |-> None]
    /\ entry' = [c \in Conn |-> NoEntry]
    /\ ready' = [c \in Conn |-> FALSE]
    /\ admin' = [c \in Conn |-> FALSE]
    /\ open' = [c \in Conn |-> FALSE]
    /\ greeted' = [c \in Conn |-> FALSE]
    /\ first' = [c \in Conn |-> FALSE]
    /\ job' = [c \in Conn |-> NoJob]
    /\ UNCHANGED durable

\* One step of the goroutine of connection c.
Step(c) ==
    \/ AbortHandshake(c) \/ ResumeRead(c)
    \/ EnrollCount(c) \/ EnrollUpsert(c) \/ EnrollAddAdmin(c) \/ Admit(c)
    \/ AddConn(c) \/ CheckReady(c) \/ Greet(c) \/ RemoveConn(c) \/ Recycle(c)
    \/ AdminDecide(c) \/ AdminReload(c) \/ AdminLookup(c) \/ AdminMark(c)
    \/ AdminWelcome(c) \/ DenyLookup(c) \/ DenyClose(c)

Next ==
    \/ \E c \in Conn, d \in Device : Connect(c, d, "resume")
    \/ \E c \in Conn, d \in Device : Connect(c, d, "enroll")
    \/ \E c \in Conn : Step(c)
    \/ \E c \in Conn : Drop(c)
    \/ \E c \in Conn, d \in Device, action \in {"approve", "deny"} : AdminBegin(c, action, d)
    \/ Restart

\* Fairness: a goroutine that can take a step is eventually scheduled.  What
\* clients, admins and the network do is not assumed.
Spec == Init /\ [][Next]_vars /\ \A c \in Conn : WF_vars(Step(c))

-----------------------------------------------------------------------------
(* Properties *)

TablesOK ==
    /\ state \in [Device -> {"absent", "pending", "active", "denied"}]
    /\ isAdmin \in [Device -> BOOLEAN]
    /\ admins \in SUBSET Device
    /\ approval \in BOOLEAN
    /\ conns \in [Device -> Conn \cup {None}]

ConnsOK ==
    /\ at \in [Conn -> {"free", "enroll", "add", "done"} \cup Handshake \cup Serving]
    /\ deviceID \in [Conn -> Device \cup {None}]
    /\ \A c \in Conn : deviceID[c] = None <=> at[c] = "free"
    /\ entry \in [Conn -> Entry]
    /\ ready \in [Conn -> BOOLEAN] /\ admin \in [Conn -> BOOLEAN]
    /\ open \in [Conn -> BOOLEAN] /\ greeted \in [Conn -> BOOLEAN]
    /\ first \in [Conn -> BOOLEAN]

Job == [action : {"none", "approve", "deny"}, target : Device \cup {None},
        updated : Entry, tc : Conn \cup {None}]

JobsOK ==
    /\ job \in [Conn -> Job]
    /\ \A c \in Conn : at[c] \in AdminSteps <=> job[c].target # None
    /\ \A c \in Conn : at[c] \in {"mark", "welcome", "close"} <=> job[c].tc # None

\* Types, and what a goroutine's locals hold at each label: a connection has an
\* identity from the handshake on, an admin job has a target and, while it acts
\* on one, a connection.
TypeOK == TablesOK /\ ConnsOK /\ JobsOK

\* "A second login for the same device replaces the first": of the connections
\* a device has, at most one is open, however logins, teardowns and promotions
\* interleave.
OneLiveConnection ==
    \A c, k \in Conn :
        (/\ c # k /\ deviceID[c] = deviceID[k]
         /\ at[c] \in Serving /\ at[k] \in Serving) => ~(open[c] /\ open[k])

\* Messages and approvals reach a device through s.conns: an open connection
\* is the one the registry names, and the registry names no other device's
\* connection and none whose teardown has run.
RegistryExact ==
    /\ \A c \in Conn : (at[c] \in Serving /\ open[c]) => conns[deviceID[c]] = c
    /\ \A d \in Device : conns[d] # None =>
           deviceID[conns[d]] = d /\ at[conns[d]] \in Serving

\* "so you can't lock yourself out": once any device is enrolled there is an
\* active admin in the devices table, whatever races with the first enrolment,
\* a crash between its two writes included.
NoLockout ==
    (\E d \in Device : state[d] # "absent")
        => \E d \in Device : state[d] = "active" /\ isAdmin[d]

\* What a connection may do as admin survives a restart: it is written in the
\* devices table or in the saved config.
AdminIsDurable ==
    \A c \in Conn : admin[c] => deviceID[c] \in admins \/ isAdmin[deviceID[c]]

\* The strengthening of NoLockout: a goroutine that counted devices and found
\* some is right for ever, an admin row is active from its insertion, and no
\* admin is about to be decided about.
Bootstrapped ==
    /\ NoLockout
    /\ \A c \in Conn : at[c] = "counted" /\ ~first[c]
           => \E d \in Device : state[d] # "absent"
    /\ \A d \in Device : isAdmin[d] => state[d] = "active"
    /\ \A a \in Conn : at[a] = "decide"
           => state[job[a].target] # "absent" /\ ~isAdmin[job[a].target]

\* The strengthening of AdminIsDurable: wherever an admin flag waits to be
\* copied into a connection it is already on disk, and an admin goroutine marks
\* a connection of the device it decided about.
AdminsRecorded ==
    /\ AdminIsDurable
    /\ \A c \in Conn : at[c] = "free" => ~admin[c]
    /\ \A c \in Conn : at[c] = "admit" /\ entry[c].admin
           => deviceID[c] \in admins \/ isAdmin[deviceID[c]]
    /\ \A a \in Conn : at[a] \in {"promote", "mark"} /\ job[a].updated.admin
           => isAdmin[job[a].target]
    /\ \A a \in Conn : job[a].tc # None =>
           /\ deviceID[job[a].tc] = job[a].target
           /\ at[job[a].tc] \in Serving \cup {"done"}

\* The relay's state in one: goroutines hold what their program point needs,
\* the registry names the open connections, and admin rights are on disk.
RegistryIsSound == TypeOK /\ RegistryExact /\ AdminsRecorded

\* upsertDevice "never downgrades state": a decided device is never undecided.
NeverUndecided ==
    [][\A d \in Device : state[d] \in {"active", "denied"}
                            => state'[d] \in {"active", "denied"}]_vars

\* A connection whose socket has died leaves the registry.
DeadLeaveRegistry ==
    \A c \in Conn, d \in Device :
        (conns[d] = c /\ ~open[c]) ~> (conns[d] # c)

\* Every connection marked ready gets its ready frame, snapshot and queue from
\* one goroutine or another.
ReadyAreGreeted ==
    \A c \in Conn : (at[c] \in Serving /\ ready[c] /\ open[c]) ~> (greeted[c] \/ ~open[c])

\* A connection that was registered when an admin wrote the approval is
\* promoted on that same connection.
WaitingIsPromoted ==
    \A a, c \in Conn :
        (at[a] = "reload" /\ conns[job[a].target] = c /\ open[c])
            ~> (ready[c] \/ ~open[c])

\* No connection is forgotten: the dead leave, the ready are greeted, and those
\* that were registered in time are promoted.
ConnectionsAreServed == DeadLeaveRegistry /\ ReadyAreGreeted /\ WaitingIsPromoted

-----------------------------------------------------------------------------
(* What documents say and the code does not do *)

\* client.go: "The relay sends a ready frame if/when an admin approves": every
\* connection whose client was told to wait hears of the approval.
PendingHearsApproval ==
    \A a, c \in Conn :
        (/\ at[a] = "reload" /\ deviceID[c] = job[a].target
         /\ at[c] \in {"add"} \cup Serving /\ open[c]) ~> (ready[c] \/ ~open[c])
=============================================================================

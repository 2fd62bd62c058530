---------------------------- MODULE ConfigReload ----------------------------
(***************************************************************************)
(* How a change of the configuration file reaches the running process:    *)
(* main.go (boot and handleReload), pkg/config/reloader.go (the watch, the *)
(* debounce timer, the reload goroutines) and pkg/pprof.                   *)
(*                                                                         *)
(* The file has a revision number and a body.  A body is what a reload can *)
(* tell apart: there is no file, it does not load or validate, pprof is    *)
(* disabled, or pprof listens on a port.  A timer that fires starts a      *)
(* goroutine; nothing makes it wait for the one before it.                 *)
(***************************************************************************)
EXTENDS Naturals, Integers, FiniteSets

CONSTANTS
  Ports,        \* the pprof ports a configuration may name (positive)
  MaxEdits,     \* bound: how often the file changes
  Reloads       \* bound: the reload goroutines that may exist at a time

ASSUME PortsAssumption == Ports \subseteq Nat \ {0}
ASSUME EditsAssumption == MaxEdits \in Nat

Absent   == -2
Invalid  == -1
Disabled == 0
Bodies   == {Absent, Invalid, Disabled} \union Ports
Loads(b) == b \notin {Absent, Invalid}
NoRev    == MaxEdits + 1

VARIABLES
  disk,         \* the file: [rev, body]
  phase,        \* main: load, read, init, watch, serving, stopping, exited
  watchedFrom,  \* the revision that was on disk when the watch began
  events,       \* file system events the watch loop has not received
  timer,        \* r.timer is armed
  job,          \* the reload goroutines: [at, rev, body]
  serverLock,   \* the goroutine that holds s.mu in Server.Reload, or "none"
  server,       \* Server: the revisions of s.config and s.configContent
  logRev,       \* the revision the logger was configured from
  pprof,        \* main's pprof server: [made, port, up, refused]; up is the
                \* port it listens on or 0, refused that its last Start failed
  detached,     \* ports of the pprof servers that reloads have started
  overlapped    \* history: two reload goroutines have existed at once

reloadVars == <<disk, phase, watchedFrom, events, timer, job, serverLock,
                server, logRev, pprof, detached, overlapped>>

Steps == {"idle", "fired", "load", "logger", "pprof", "pprofStop", "pprofPort",
          "pprofStart", "lock", "apply"}
Revs  == 0..MaxEdits
Idle  == [at |-> "idle", rev |-> 0, body |-> Disabled]
PprofServers == [made : BOOLEAN, port : Ports \union {0}, up : Ports \union {0},
                 refused : BOOLEAN]

ReloadTypeOK ==
  /\ disk \in [rev : Revs, body : Bodies]
  /\ phase \in {"load", "read", "init", "watch", "serving", "stopping", "exited"}
  /\ watchedFrom \in Revs \union {NoRev}
  /\ events \in [change : 0..2, other : 0..1]
  /\ timer \in BOOLEAN
  /\ job \in [Reloads -> [at : Steps, rev : Revs, body : Bodies]]
  /\ serverLock \in Reloads \union {"none"}
  /\ server \in [config : Revs, content : Revs, body : Bodies]
  /\ logRev \in Revs
  /\ pprof \in PprofServers
  /\ detached \subseteq Ports
  /\ overlapped \in BOOLEAN

(* The process starts on a file that is there; what it says is open. *)
ReloadInit ==
  /\ disk \in [rev : {0}, body : Bodies \ {Absent}]
  /\ phase = "load"
  /\ watchedFrom = NoRev
  /\ events = [change |-> 0, other |-> 0]
  /\ timer = FALSE
  /\ job = [g \in Reloads |-> Idle]
  /\ serverLock = "none"
  /\ server = [config |-> 0, content |-> 0, body |-> Disabled]
  /\ logRev = 0
  /\ pprof = [made |-> FALSE, port |-> 0, up |-> 0, refused |-> FALSE]
  /\ detached = {}
  /\ overlapped = FALSE

-----------------------------------------------------------------------------
(* The file.  The watcher queues an event once the watch is on.            *)

Watching == phase \in {"watch", "serving", "stopping"} /\ watchedFrom # NoRev

Edit(b) ==
  /\ disk.rev < MaxEdits
  /\ events.change < 2
  /\ disk' = [rev |-> disk.rev + 1, body |-> b]
  /\ events' = IF Watching THEN [events EXCEPT !.change = @ + 1] ELSE events
  /\ UNCHANGED <<phase, watchedFrom, timer, job, serverLock, server, logRev,
                 pprof, detached, overlapped>>

(* Another file of the directory changes, or the file is renamed away. *)
OtherEvent ==
  /\ Watching
  /\ events.other = 0
  /\ \/ disk' = disk
     \/ disk.rev < MaxEdits /\ disk' = [rev |-> disk.rev + 1, body |-> Absent]
  /\ events' = [events EXCEPT !.other = 1]
  /\ UNCHANGED <<phase, watchedFrom, timer, job, serverLock, server, logRev,
                 pprof, detached, overlapped>>

-----------------------------------------------------------------------------
(* main                                                                    *)

(* LoadGlobalConfig and Validate; a failure is Fatal. *)
BootLoad ==
  /\ phase = "load"
  /\ IF Loads(disk.body)
     THEN /\ phase' = "read"
          /\ server' = [server EXCEPT !.config = disk.rev, !.body = disk.body]
          /\ logRev' = disk.rev
     ELSE phase' = "exited" /\ UNCHANGED <<server, logRev>>
  /\ UNCHANGED <<disk, watchedFrom, events, timer, job, serverLock, pprof,
                 detached, overlapped>>

(* The file is read a second time, for the collectors' own sections. *)
BootRead ==
  /\ phase = "read"
  /\ IF disk.body # Absent
     THEN /\ phase' = "init"
          /\ server' = [server EXCEPT !.content = disk.rev]
          /\ pprof' = [made |-> server.body # Disabled, port |-> server.body,
                       up |-> 0, refused |-> FALSE]
     ELSE phase' = "exited" /\ UNCHANGED <<server, pprof>>
  /\ UNCHANGED <<disk, watchedFrom, events, timer, job, serverLock, logRev,
                 detached, overlapped>>

(* srv.Init returns, the pprof server of the configuration starts.  A failure
   of either is Fatal, and so is one of the watch that would follow. *)
BootInit ==
  /\ phase = "init"
  /\ \/ /\ phase' = "watch"
        /\ pprof' = IF pprof.made THEN [pprof EXCEPT !.up = pprof.port] ELSE pprof
     \/ phase' = "exited" /\ UNCHANGED pprof
  /\ UNCHANGED <<disk, watchedFrom, events, timer, job, serverLock, server,
                 logRev, detached, overlapped>>

(* Reloader.Start: watcher.Add on the directory, then the watch loop. *)
WatchBegins ==
  /\ phase = "watch"
  /\ phase' = "serving"
  /\ watchedFrom' = disk.rev
  /\ UNCHANGED <<disk, events, timer, job, serverLock, server, logRev, pprof,
                 detached, overlapped>>

(* SIGTERM cancels the context: the watch loop returns when its select sees it. *)
Terminate ==
  /\ phase = "serving"
  /\ phase' = "stopping"
  /\ UNCHANGED <<disk, watchedFrom, events, timer, job, serverLock, server,
                 logRev, pprof, detached, overlapped>>

(* Serve has returned; the deferred Reloader.Stop and pprof Stop run, and the
   process ends with whatever reload is still under way. *)
ExitMain ==
  /\ phase = "stopping"
  /\ phase' = "exited"
  /\ timer' = FALSE
  /\ pprof' = [pprof EXCEPT !.up = 0]
  /\ job' = [g \in Reloads |-> Idle]
  /\ serverLock' = "none"
  /\ detached' = {}
  /\ events' = [change |-> 0, other |-> 0]
  /\ UNCHANGED <<disk, watchedFrom, server, logRev, overlapped>>

-----------------------------------------------------------------------------
(* Reloader                                                                *)

(* scheduleReload when the event is about the file; r.timer is replaced. *)
SlipReceiveChange ==
  /\ phase \in {"serving", "stopping"}
  /\ events.change > 0
  /\ events' = [events EXCEPT !.change = @ - 1]
  /\ timer' = (timer \/ \A g \in Reloads : job[g].at = "idle")
  /\ UNCHANGED <<disk, phase, watchedFrom, job, serverLock, server, logRev,
                 pprof, detached, overlapped>>

ReceiveChange ==
  /\ phase \in {"serving", "stopping"}
  /\ events.change > 0
  /\ events' = [events EXCEPT !.change = @ - 1]
  /\ timer' = TRUE
  /\ UNCHANGED <<disk, phase, watchedFrom, job, serverLock, server, logRev,
                 pprof, detached, overlapped>>

(* Other files, and operations other than Write, Create and Remove. *)
ReceiveOther ==
  /\ phase \in {"serving", "stopping"}
  /\ events.other > 0
  /\ events' = [events EXCEPT !.other = 0]
  /\ UNCHANGED <<disk, phase, watchedFrom, timer, job, serverLock, server,
                 logRev, pprof, detached, overlapped>>

(* The debounce ends: AfterFunc calls reload in a goroutine of its own. *)
TimerFires(g) ==
  /\ phase \in {"serving", "stopping"}
  /\ timer
  /\ job[g].at = "idle"
  /\ timer' = FALSE
  /\ job' = [job EXCEPT ![g] = [Idle EXCEPT !.at = "fired"]]
  /\ overlapped' = (overlapped \/ \E h \in Reloads : job[h].at # "idle")
  /\ UNCHANGED <<disk, phase, watchedFrom, events, serverLock, server, logRev,
                 pprof, detached>>

Goto(g, s) == job' = [job EXCEPT ![g].at = s]
Finish(g)  == job' = [job EXCEPT ![g] = Idle]

(* os.ReadFile; an error is logged and nobody tries again. *)
ReadConfig(g) ==
  /\ job[g].at = "fired"
  /\ IF disk.body = Absent
     THEN Finish(g)
     ELSE job' = [job EXCEPT ![g] = [at |-> "load", rev |-> disk.rev,
                                     body |-> disk.body]]
  /\ UNCHANGED <<disk, phase, watchedFrom, events, timer, serverLock, server,
                 logRev, pprof, detached, overlapped>>

(* loadAndValidateConfig. *)
ValidateConfig(g) ==
  /\ job[g].at = "load"
  /\ IF Loads(job[g].body) THEN Goto(g, "logger") ELSE Finish(g)
  /\ UNCHANGED <<disk, phase, watchedFrom, events, timer, serverLock, server,
                 logRev, pprof, detached, overlapped>>

ReloadLogger(g) ==
  /\ job[g].at = "logger"
  /\ logRev' = job[g].rev
  /\ Goto(g, "pprof")
  /\ UNCHANGED <<disk, phase, watchedFrom, events, timer, serverLock, server,
                 pprof, detached, overlapped>>

(* reloadPprofServer, and the first critical section of pprof's Reload: stop,
   leave alone, or move.  A server that main did not make cannot be handed
   back to it: it is detached, and a port in use makes its Start fail. *)
ReloadPprof(g) ==
  /\ job[g].at = "pprof"
  /\ LET b == job[g].body
     IN CASE pprof.made /\ b = Disabled ->
               pprof' = [pprof EXCEPT !.up = 0] /\ Goto(g, "lock")
                 /\ UNCHANGED detached
          [] pprof.made /\ b # Disabled ->
               /\ Goto(g, IF pprof.port = b /\ pprof.up # 0 THEN "lock"
                                                            ELSE "pprofStop")
               /\ UNCHANGED <<pprof, detached>>
          [] OTHER ->
               /\ \/ UNCHANGED detached
                  \/ b # Disabled /\ detached' = detached \union {b}
               /\ Goto(g, "lock") /\ UNCHANGED pprof
  /\ UNCHANGED <<disk, phase, watchedFrom, events, timer, serverLock, server,
                 logRev, overlapped>>

(* pprof's Stop, the unlocked assignment of the port, and Start, which fails
   when somebody else has started the server meanwhile or the port cannot be
   had.  reloadPprofServer logs the error, and the reload goes on. *)
PprofStop(g) ==
  /\ job[g].at = "pprofStop"
  /\ pprof' = [pprof EXCEPT !.up = 0]
  /\ Goto(g, "pprofPort")
  /\ UNCHANGED <<disk, phase, watchedFrom, events, timer, serverLock, server,
                 logRev, detached, overlapped>>

PprofPort(g) ==
  /\ job[g].at = "pprofPort"
  /\ pprof' = [pprof EXCEPT !.port = job[g].body]
  /\ Goto(g, "pprofStart")
  /\ UNCHANGED <<disk, phase, watchedFrom, events, timer, serverLock, server,
                 logRev, detached, overlapped>>

PprofStart(g) ==
  /\ job[g].at = "pprofStart"
  /\ \/ pprof.up = 0 /\ pprof' = [pprof EXCEPT !.up = pprof.port, !.refused = FALSE]
     \/ pprof.up = 0 /\ pprof' = [pprof EXCEPT !.refused = TRUE]
     \/ pprof.up # 0 /\ UNCHANGED pprof
  /\ Goto(g, "lock")
  /\ UNCHANGED <<disk, phase, watchedFrom, events, timer, serverLock, server,
                 logRev, detached, overlapped>>

(* Server.Reload takes s.mu ... *)
LockServer(g) ==
  /\ job[g].at = "lock"
  /\ serverLock = "none"
  /\ serverLock' = g
  /\ Goto(g, "apply")
  /\ UNCHANGED <<disk, phase, watchedFrom, events, timer, server, logRev,
                 pprof, detached, overlapped>>

(* ... applies the configuration and its content, and gives it back. *)
SlipApplyConfig(g) ==
  /\ job[g].at = "apply"
  /\ server' = [server EXCEPT !.config = job[g].rev, !.body = job[g].body]
  /\ serverLock' = "none"
  /\ Finish(g)
  /\ UNCHANGED <<disk, phase, watchedFrom, events, timer, logRev, pprof,
                 detached, overlapped>>

ApplyConfig(g) ==
  /\ job[g].at = "apply"
  /\ server' = [config |-> job[g].rev, content |-> job[g].rev,
                body |-> job[g].body]
  /\ serverLock' = "none"
  /\ Finish(g)
  /\ UNCHANGED <<disk, phase, watchedFrom, events, timer, logRev, pprof,
                 detached, overlapped>>

ReloadStep(g) ==
  \/ ReadConfig(g) \/ ValidateConfig(g) \/ ReloadLogger(g) \/ ReloadPprof(g)
  \/ PprofStop(g) \/ PprofPort(g) \/ PprofStart(g)
  \/ LockServer(g) \/ ApplyConfig(g)

DebounceEnds == \E g \in Reloads : TimerFires(g)

ReloadNext ==
  \/ \E b \in Bodies : Edit(b)
  \/ OtherEvent
  \/ BootLoad \/ BootRead \/ BootInit \/ WatchBegins \/ Terminate \/ ExitMain
  \/ ReceiveChange \/ ReceiveOther \/ DebounceEnds
  \/ \E g \in Reloads : ReloadStep(g)

ReloadSpec ==
  /\ ReloadInit /\ [][ReloadNext]_reloadVars
  /\ WF_reloadVars(ReceiveChange)
  /\ WF_reloadVars(DebounceEnds)
  /\ \A g \in Reloads : WF_reloadVars(ReloadStep(g))

-----------------------------------------------------------------------------
Settled ==
  /\ phase = "serving" /\ events.change = 0 /\ ~timer
  /\ \A g \in Reloads : job[g].at = "idle"

PprofFollows(b) == pprof.up = b \/ (pprof.up = 0 /\ pprof.refused)

(* When the watch loop, the timer and all reloads have come to rest, and the
   file that is there loads and has changed since the watch began, everything
   that follows the configuration follows this revision: the server's
   configuration, the content its collectors read, the logger and the pprof
   server that main made - which listens nowhere if its new port could not be
   had, but never where an older configuration put it.  The exception is a
   process in which two reloads have overlapped (reloader.go:170): then the
   older one may come last, and pprof's Reload, which is not atomic, may leave
   the port of neither. *)
SettledFollowsFile ==
  (Settled /\ ~overlapped /\ Loads(disk.body) /\ disk.rev > watchedFrom)
    => /\ server = [config |-> disk.rev, content |-> disk.rev, body |-> disk.body]
       /\ logRev = disk.rev
       /\ pprof.made => PprofFollows(disk.body)

(* A change of the file that the watch has seen is never forgotten: in the end
   nothing is under way any more and the revision then on disk is in force, the
   file has become unusable, or the process stops.  When reloads have
   overlapped, only that they come to rest is promised. *)
ChangeTakesEffect ==
  (phase = "serving" /\ Loads(disk.body) /\ disk.rev > watchedFrom)
    ~> \/ phase # "serving" \/ ~Loads(disk.body)
       \/ Settled /\ (overlapped \/ server.config = disk.rev)
=============================================================================

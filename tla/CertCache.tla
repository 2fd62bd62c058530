----------------------------- MODULE CertCache -----------------------------
(***************************************************************************)
(* The TLS certificate cache (pkg/tlscache): two goroutines, one for the   *)
(* events of the files' watches and one for a ticker, load the certificate *)
(* and its key from two files that are replaced one after the other.       *)
(***************************************************************************)
EXTENDS Naturals

CONSTANT MaxPairs   \* bound: the certificates that are issued

ASSUME PairsAssumption == MaxPairs \in Nat /\ MaxPairs >= 2

Files   == {"cert", "key"}
Loaders == {"watch", "poll"}

VARIABLES
  pem,         \* the certificate that each file holds a half of; 0: no file
  watched,     \* the files whose watch is alive
  fsEvent,     \* an event waits to be received
  loader,      \* where loadCertificate of watchLoop and pollLoop is
  served,      \* c.cert
  certStopped  \* stopCh is closed

certVars == <<pem, watched, fsEvent, loader, served, certStopped>>

AtSelect == [at |-> "select", read |-> 0]

CertTypeOK ==
  /\ pem \in [Files -> 0..MaxPairs]
  /\ watched \subseteq Files
  /\ fsEvent \in BOOLEAN
  /\ loader \in [Loaders -> [at : {"select", "cert", "key", "store", "ended"},
                             read : 0..MaxPairs]]
  /\ served \in 1..MaxPairs
  /\ certStopped \in BOOLEAN

(* New has loaded the first pair and begins to watch: the files may have changed
   since it read them. *)
CertInit ==
  /\ pem \in [Files -> {1, 2}]
  /\ watched = Files
  /\ fsEvent = FALSE
  /\ loader = [l \in Loaders |-> AtSelect]
  /\ served = 1
  /\ certStopped = FALSE

-----------------------------------------------------------------------------
(* A file is rewritten in place, or removed and later created: the watch on a
   file goes with the file.  One waiting event stands for several. *)
Rewrite(f) ==
  /\ pem[f] \in 1..(MaxPairs - 1)
  /\ pem' = [pem EXCEPT ![f] = @ + 1]
  /\ fsEvent' = (fsEvent \/ f \in watched)
  /\ UNCHANGED <<watched, loader, served, certStopped>>

RemoveFile(f) ==
  /\ pem[f] \in 1..(MaxPairs - 1)
  /\ pem' = [pem EXCEPT ![f] = 0]
  /\ fsEvent' = (fsEvent \/ f \in watched)
  /\ watched' = watched \ {f}
  /\ UNCHANGED <<loader, served, certStopped>>

CreateFile(f) ==
  /\ pem[f] = 0
  /\ pem' = [pem EXCEPT ![f] = MaxPairs]
  /\ UNCHANGED <<watched, fsEvent, loader, served, certStopped>>

(* fsnotify drops events when its queue overflows. *)
EventLost ==
  /\ fsEvent
  /\ fsEvent' = FALSE
  /\ UNCHANGED <<pem, watched, loader, served, certStopped>>

StopCertCache ==
  /\ ~certStopped
  /\ certStopped' = TRUE
  /\ UNCHANGED <<pem, watched, fsEvent, loader, served>>

-----------------------------------------------------------------------------
Moves(l, at, v) == loader' = [loader EXCEPT ![l] = [at |-> at, read |-> v]]

WatchEvent ==
  /\ loader["watch"].at = "select" /\ fsEvent
  /\ fsEvent' = FALSE
  /\ Moves("watch", "cert", 0)
  /\ UNCHANGED <<pem, watched, served, certStopped>>

PollTick ==
  /\ loader["poll"].at = "select"
  /\ Moves("poll", "cert", 0)
  /\ UNCHANGED <<pem, watched, fsEvent, served, certStopped>>

(* A failed load leaves the certificate as it is; the loop goes on. *)
SlipLoadFails(l) == Moves(l, IF l = "poll" THEN "ended" ELSE "select", 0)
LoadFails(l)     == Moves(l, "select", 0)

(* tls.LoadX509KeyPair reads one file, then the other, and wants a pair. *)
ReadCert(l) ==
  /\ loader[l].at = "cert"
  /\ IF pem["cert"] = 0 THEN LoadFails(l) ELSE Moves(l, "key", pem["cert"])
  /\ UNCHANGED <<pem, watched, fsEvent, served, certStopped>>

ReadKey(l) ==
  /\ loader[l].at = "key"
  /\ IF pem["key"] # loader[l].read THEN LoadFails(l) ELSE Moves(l, "store", loader[l].read)
  /\ UNCHANGED <<pem, watched, fsEvent, served, certStopped>>

StoreCert(l) ==
  /\ loader[l].at = "store"
  /\ served' = loader[l].read
  /\ Moves(l, "select", 0)
  /\ UNCHANGED <<pem, watched, fsEvent, certStopped>>

LoaderEnds(l) ==
  /\ certStopped /\ loader[l].at = "select"
  /\ Moves(l, "ended", 0)
  /\ UNCHANGED <<pem, watched, fsEvent, served, certStopped>>

LoaderStep(l) == ReadCert(l) \/ ReadKey(l) \/ StoreCert(l) \/ LoaderEnds(l)

CertNext ==
  \/ \E f \in Files : Rewrite(f) \/ RemoveFile(f) \/ CreateFile(f)
  \/ EventLost \/ StopCertCache \/ WatchEvent \/ PollTick
  \/ \E l \in Loaders : LoaderStep(l)

(* The ticker ticks and the goroutines run; nothing is assumed of the events. *)
CertSpec ==
  /\ CertInit /\ [][CertNext]_certVars
  /\ WF_certVars(PollTick)
  /\ \A l \in Loaders : WF_certVars(LoaderStep(l)) /\ WF_certVars(LoaderEnds(l))

-----------------------------------------------------------------------------
(* Once the files rest as a certificate and its key, the cache comes to serve
   that certificate and keeps serving it, unless it was stopped: although loads
   race with the replacement of the files and with each other, an older pair
   may be stored after a newer one, and the watch may be gone. *)
CertFollowsFiles ==
  <>[](certStopped \/ pem["cert"] # pem["key"] \/ pem["cert"] = 0 \/ served = pem["cert"])
=============================================================================

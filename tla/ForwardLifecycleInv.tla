------------------------ MODULE ForwardLifecycleInv ------------------------
(***************************************************************************)
(* The inductive invariant of a forward's life, in named parts.            *)
(***************************************************************************)
EXTENDS ForwardLifecycle

(* Start before the forward listens, while it listens, and after it has    *)
(* started the goroutines.                                                 *)
Early == {"none", "source", "target", "listen", "failing", "failed", "refused"}
Listening == {"run", "spawn"}
Spawned == {"check", "undo", "close", "report", "set", "write", "returned"}

Is(b) == IF b THEN 1 ELSE 0

(* Each goroutine is where its own code can be.                            *)
Places ==
    /\ pc["start"] \in Early \cup Listening \cup Spawned
    /\ pc["stop"] \in {"none", "status", "wait", "returned"}
    /\ pc["accept"] \in {"none", "loop", "failing", "set", "write", "exit"}
    /\ pc["cleanup"] \in {"none", "wait", "listener", "conns", "release", "exit"}
    /\ \A g \in Monitors : pc[g] \in
          {"none", "loop", "source", "target", "observe", "probe", "set",
           "write", "exit"}
    /\ \A c \in Conns : pc[c] \in
          {"none", "accepted", "dial", "register", "copy", "leave",
           "unregister", "set", "write", "exit"}

(* A step about a kept connection is taken by a kind that keeps it.        *)
KeptByKind ==
    /\ pooled \subseteq Keeps
    /\ \A g \in Monitors \cup {"start"} : pc[g] \in Kept => pc[g] \in Keeps
    /\ \A g \in Monitors : pc[g] = "probe" => kind = "rlr"

(* Until Spawn, Start is alone; Stop begins when Start is over.            *)
Alone ==
    /\ pc["start"] \notin Spawned <=> pc["accept"] = "none"
    /\ pc["start"] \notin Spawned <=> pc["cleanup"] = "none"
    /\ pc["start"] \notin Spawned =>
          /\ \A g \in Monitors \cup Conns : pc[g] = "none"
          /\ once = "unused"
          /\ pc["start"] # "refused" => ~cancelled
    /\ pc["stop"] # "none" => pc["start"] \in {"refused", "returned"}

(* One user at a time is inside cleanupOnce, and it is used once.          *)
OneCleanup ==
    /\ done <=> once # "unused"
    /\ pc["start"] \in {"undo", "close"} =>
          once = "busy" /\ pc["cleanup"] = "wait"
    /\ pc["cleanup"] \in {"listener", "conns", "release"} =>
          once = "busy" /\ cancelled
    /\ pc["cleanup"] = "exit" => once = "used"
    /\ once = "busy" =>
          \/ pc["start"] \in {"undo", "close"}
          \/ pc["cleanup"] \in {"listener", "conns", "release"}

(* The listener and the kept connections go while cleanupOnce is busy.     *)
TornDown ==
    /\ pc["start"] \in Early => listener = "none" /\ pooled = {}
    /\ pc["start"] \notin Early =>
          /\ once = "unused" => listener = "open" /\ pooled = Keeps
          /\ once = "used" => listener = "closed" /\ pooled = {}
          /\ pc["start"] = "undo" => listener = "open" /\ pooled = Keeps
          /\ pc["start"] = "close" => listener = "open" /\ pooled = {}
          /\ pc["cleanup"] = "listener" => listener = "open"
          /\ pc["cleanup"] \in {"conns", "release"} => listener = "closed"
          /\ pc["cleanup"] \in {"listener", "conns", "release"} =>
                pooled = Keeps

(* The status is "running" once, from SetRunning to the first failure or   *)
(* stop; what ends a running forward is a stop.                            *)
StatusHistory ==
    /\ pc["start"] \in Early \cup {"run"} => status # "running"
    /\ pc["start"] \in {"undo", "close"} => status # "running"
    /\ pc["start"] \in Spawned \cup {"spawn"} /\ status = "stopped" =>
          pc["stop"] \in {"wait", "returned"}
    /\ pc["start"] = "spawn" => status = "running"
    /\ status = "running" =>
          /\ cancelled => pc["stop"] = "status"
          /\ ~cancelled => once = "unused" /\ pc["accept"] # "exit"
          /\ \A g \in Goroutines \cup {"start"} : pc[g] # "write"

(* When Stop has returned, no goroutine of the forward is left.            *)
StopWaited ==
    pc["stop"] = "returned" => \A g \in Goroutines : pc[g] \in {"none", "exit"}

(* Who holds which reference, of the connections kept and of the monitors. *)
KeptCounted ==
    /\ refs["source"] = Is(\/ "source" \in pooled
                           \/ pc["start"] = "target"
                           \/ pc["start"] = "listen" /\ kind # "llr")
    /\ refs["target"] = Is(\/ "target" \in pooled
                           \/ pc["start"] = "listen" /\ kind = "rlr")
    /\ \A g \in Monitors : refs[g] = Is(kind = "llr" /\ pc[g] = "observe")

(* A channel, its handler, its copiers and those who close it.             *)
ChannelUse(c) ==
    /\ channel[c] # "none" => kind = "llr" /\ pc[c] \in
          {"register", "copy", "leave", "unregister", "exit"}
    /\ pc[c] = "dial" => kind = "llr"
    /\ pc[c] = "register" /\ kind = "llr" => channel[c] = "open"
    /\ pc[c] = "register" => ~Closing(c) /\ c \notin copying
    /\ c \in registered => pc[c] \in {"copy", "leave", "unregister"}
    /\ c \in copying =>
          /\ pc[c] \in {"copy", "leave", "unregister", "exit"}
          /\ <<c, "copier">> \notin closing
    /\ Closing(c) => channel[c] # "none"
    /\ <<c, "handler">> \in closing <=> pc[c] = "leave"
    /\ <<c, "cleanup">> \in closing => pc["cleanup"] = "release"
    /\ channel[c] = "open" => pc[c] \in {"register", "copy"} \/ Closing(c)

(* Of the three that may close a channel, each does so once at most.       *)
CopierLeft(c) == pc[c] = "register" \/ c \in copying \/ <<c, "copier">> \in closing
HandlerLeft(c) == pc[c] \in {"register", "copy", "leave"}
CleanupLeft(c) ==
    pc["cleanup"] \notin {"release", "exit"} \/ <<c, "cleanup">> \in closing

ChannelCount(c) ==
    /\ channel[c] = "none" => refs[c] = Is(pc[c] = "dial")
    /\ channel[c] = "open" => refs[c] = 1
    /\ channel[c] = "closed" =>
          /\ refs[c] <= 0
          /\ refs[c] >= Is(CopierLeft(c)) + Is(HandlerLeft(c))
                          + Is(CleanupLeft(c)) - 2

ChannelsCounted == \A c \in Conns : ChannelUse(c) /\ ChannelCount(c)

LifecycleIInv ==
    /\ TypeOK
    /\ Places /\ KeptByKind /\ Alone
    /\ OneCleanup /\ TornDown /\ StatusHistory /\ StopWaited
    /\ KeptCounted /\ ChannelsCounted
    /\ PanicsOnNilOnly
=============================================================================

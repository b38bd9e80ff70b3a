---------------------------- MODULE LinodePowerProofs ----------------------------
(* Theorems about LinodePower, for any number of handlers, disks and configs and  *)
(* whatever they are asked to do together.                                        *)
EXTENDS LinodePower, WellFoundedInduction, TLAPS

-----------------------------------------------------------------------------
(* The types of the variables, with all fields of a handler. *)

CallSteps == {"watch", "request", "await"}
Places ==
    CallSteps \union
    {"start", "settle", "operate", "check", "list", "inspect", "safe", "put",
     "apply", "decide", "running", "removal", "drop", "rebooted", "end"}
Returns ==
    {Nothing, "operate", "put", "check", "list", "end", "unlooked", "drop", "rebooted"}

LinodeRecord ==
    [power : Powers, job : Nat, booted : Configs, pending : SUBSET Configs,
     disks : [Disks -> {"old", "new", "gone"}], configs : SUBSET Configs]
EventRecord == [action : Actions, on : Subjects, status : {"started", "finished", "failed"}]
CallRecord  == [action : Actions \union {Nothing}, on : Subjects]
HandlerRecord ==
    [task : TaskRecord, pc : Places, result : {"none", "ok", "error"}, noted : BOOLEAN,
     status : Powers \union {Nothing}, current : Configs \union {Nothing},
     reboot : BOOLEAN, off : BOOLEAN, call : CallRecord, watch : Nat, next : Returns]

Typed ==
    /\ linode \in LinodeRecord
    /\ events \in Seq(EventRecord)
    /\ handler \in [Handlers -> HandlerRecord]
    /\ skip \in BOOLEAN /\ wasOn \in BOOLEAN /\ failures \in 0 .. MaxFailures

-----------------------------------------------------------------------------
(* The API: its jobs, and what the events tell. *)

DiskActions == {"disk_resize", "disk_delete"}
Boots       == {"boot", "reboot"}
Last        == events[Len(events)]

\* The task that works on a disk: it is the only one.
Works(h, action, disk) ==
    Of(h).on = disk /\ Of(h).verb = IF action = "disk_resize" THEN "resize" ELSE "delete"

\* The job that runs has the last event, and the power state that goes with it.
JobInv ==
    /\ Busy => linode.job = Len(events) /\ Last.status = "started"
    /\ ~Busy => linode.power \in {"running", "offline"}
    /\ Busy => linode.power = CASE Last.action = "boot"     -> "booting"
                                [] Last.action = "reboot"   -> "rebooting"
                                [] Last.action = "shutdown" -> "shutting_down"
                                [] OTHER                    -> "offline"

\* What an event says: that of a boot names a config, that of a disk operation a
\* disk that somebody works on, and once it has finished the disk is so.
Told(e) ==
    /\ e.action \in Boots => e.on \in Configs
    /\ e.action \in DiskActions =>
          /\ e.on \in Disks
          /\ \E h \in Handlers : Works(h, e.action, e.on)
          /\ e.status = "finished" =>
                 linode.disks[e.on] = IF e.action = "disk_resize" THEN "new" ELSE "gone"

EventInv ==
    /\ \A d \in Disks :
          linode.disks[d] = "gone" => \E h \in Handlers : Works(h, "disk_delete", d)
    /\ \A i \in DOMAIN events : Told(events[i])

-----------------------------------------------------------------------------
(* The handlers: which calls they make, and where they go on. *)

Makes(r, action, on, next) == r.call.action = action /\ r.call.on = on /\ r.next = next

DiskCalls(r) ==
    \/ Makes(r, "shutdown", Nothing, "operate") /\ r.status = "running"
    \/ r.task.verb = "resize" /\ Makes(r, "disk_resize", r.task.on, "check")
    \/ r.task.verb = "delete" /\ Makes(r, "disk_delete", r.task.on, "list")
    \/ Makes(r, "boot", Nothing, "end") /\ r.status = "running"
ConfigCalls(r) ==
    \/ r.off /\ Makes(r, "shutdown", Nothing, "put")
    \/ r.off /\ r.task.booted = "unset" /\ Makes(r, "boot", r.task.on, "unlooked")
    \/ /\ r.task.booted = "true"
       /\ Makes(r, "boot", r.task.on, "end") \/ Makes(r, "reboot", r.task.on, "end")
    \/ r.task.booted = "false" /\ Makes(r, "shutdown", Nothing, "end")

\* Where a task may be.
PlacesOf(verb) ==
    CASE verb = "resize" -> {"start", "settle", "operate", "check", "list", "end"}
      [] verb = "delete" -> {"start", "settle", "operate", "list", "end"}
      [] verb = "create" -> {"start", "apply", "decide", "running", "end"}
      [] verb = "change" -> {"start", "inspect", "put", "apply", "decide", "running", "end"}
      [] verb = "rewire" -> {"start", "inspect", "safe", "settle", "put", "apply", "decide",
                             "running", "end"}
      [] verb = "remove" -> {"start", "removal", "drop", "end"}
      [] verb = "reboot" -> {"start", "rebooted", "end"}

Control(r) ==
    /\ r.pc \in CallSteps =>
          CASE r.task.verb \in DiskVerbs -> DiskCalls(r)
            [] r.task.verb = "remove"    -> Makes(r, "shutdown", Nothing, "drop")
            [] r.task.verb = "reboot"    -> Makes(r, "reboot", Nothing, "rebooted")
            [] OTHER                     -> ConfigCalls(r)
    /\ r.pc \in CallSteps \/ r.pc \in PlacesOf(r.task.verb)
    /\ r.pc \in {"safe", "settle"} /\ r.task.verb \notin DiskVerbs => r.off
    /\ r.off => r.task.verb = "rewire"
    /\ r.pc = "start" => r.status = Nothing
    /\ r.pc = "settle" => r.status \in {"running", "offline"}
    /\ r.pc = "running" => r.task.booted \in {"true", "false"}
    /\ r.noted => r.task.verb = "delete"
    /\ r.result # "none" => r.pc = "end"
    /\ r.result = "ok" => ~r.noted
    /\ r.watch <= Len(events)

\* The tasks are assigned at the beginning.
Assigned == \E task \in Assignments : \A h \in Handlers : Of(h) = task[h]

-----------------------------------------------------------------------------
(* What a handler has done by the time it is at a place. *)

Past(r, places) == r.pc \in places \/ (r.pc \in CallSteps /\ r.call.action = "boot")
Done(r) ==
    /\ r.task.verb = "resize" =>
          /\ Past(r, {"check", "list"}) => linode.disks[r.task.on] = "new"
          /\ r.result = "ok" => linode.disks[r.task.on] = "new"
    /\ r.task.verb = "delete" =>
          /\ Past(r, {"list"}) => r.noted \/ linode.disks[r.task.on] = "gone"
          /\ r.result = "ok" => linode.disks[r.task.on] = "gone"
    /\ r.task.verb = "remove" /\ r.result = "ok" => r.task.on \notin linode.configs

HandlersInv == \A h \in Handlers : Control(handler[h]) /\ Done(handler[h])

IInv == Typed /\ JobInv /\ EventInv /\ Assigned /\ HandlersInv

-----------------------------------------------------------------------------
(* Without failures: a Linode that was on is on, or somebody will boot it. *)

On == linode.power \in {"running", "booting", "rebooting"}

\* The handler has to boot the Linode it shut down.
Owes(r) ==
    \/ /\ r.task.verb \in DiskVerbs /\ r.status = "running"
       /\ \/ r.pc \in {"operate", "check", "list"}
          \/ r.pc = "await" /\ r.call.action = "shutdown"
          \/ r.pc \in CallSteps /\ r.call.action \in DiskActions
          \/ r.pc \in {"watch", "request"} /\ r.call.action = "boot"
    \/ /\ r.off
       /\ \/ r.pc = "put"
          \/ r.pc = "await" /\ r.call.action = "shutdown"
          \/ r.pc \in {"watch", "request"} /\ r.call.action = "boot"
          \/ r.pc = "apply" /\ r.task.booted = "true"
          \/ r.pc = "decide" /\ r.task.booted = "true" /\ ~IsBooted(r.status)

\* A handler waits for the job that runs.
Awaits(r, e) ==
    /\ r.pc = "await" /\ r.call.action = e.action /\ r.watch < Len(events)
    /\ e.action \in DiskActions => r.call.on = e.on

Calm == failures = MaxFailures
Benign == \A h \in Handlers : ~TurnsOff(Of(h))

CalmInv ==
    Calm =>
        /\ \A i \in DOMAIN events : events[i].status # "failed"
        /\ Busy => \E h \in Handlers : Awaits(handler[h], Last)
        /\ Benign => linode.configs = Configs
        /\ Benign /\ wasOn /\ Left # {} => On \/ \E h \in Handlers : Owes(handler[h])

FullInv == IInv /\ CalmInv

-----------------------------------------------------------------------------
(* The latest of some events. *)

LEMMA LatestExists ==
    ASSUME NEW n \in Nat, NEW S \in SUBSET (1 .. n), S # {}
    PROVE  \E i \in S : \A j \in S : j <= i
<1> DEFINE T == {n - i : i \in S}
           R == {p \in Nat \X Nat : p[1] < p[2]}
<1>1. T \subseteq Nat /\ T # {}
  <2>1. \A i \in S : n - i \in Nat
    OBVIOUS
  <2> QED
    BY <2>1
<1>2. IsWellFoundedOn(R, Nat)
  BY NatLessThanWellFounded DEF OpToRel
<1>3. PICK x \in T : \A y \in T : ~(<<y, x>> \in R)
  <2> HIDE DEF T, R
  <2> QED
    BY <1>1, <1>2, WFMin
<1>4. PICK i \in S : x = n - i
  BY <1>3
<1>5. ASSUME NEW j \in S PROVE j <= i
  <2>1. i \in 1 .. n /\ j \in 1 .. n /\ n - j \in T
    OBVIOUS
  <2>2. ~(n - j < n - i)
    <3>1. ~(<<n - j, n - i>> \in R)
      BY <1>3, <1>4, <2>1
    <3>2. n - j \in Nat /\ n - i \in Nat
      BY <2>1
    <3> QED
      BY <3>1, <3>2
  <2> QED
    BY <2>1, <2>2
<1> QED
  BY <1>5

LEMMA LatestIsLast ==
    ASSUME Typed, NEW S \in SUBSET (DOMAIN events), S # {}
    PROVE  /\ LatestOf(S) \in S
           /\ \A j \in S : j <= LatestOf(S)
<1>1. DOMAIN events = 1 .. Len(events) /\ Len(events) \in Nat
  BY DEF Typed
<1>2. \E i \in S : \A j \in S : j <= i
  BY <1>1, LatestExists
<1> QED
  BY <1>2 DEF LatestOf

-----------------------------------------------------------------------------
(* A handler goes on: nobody else is changed. *)

LEMMA BecomesOne ==
    ASSUME Typed, NEW h \in Handlers, NEW r \in HandlerRecord, Becomes(h, r)
    PROVE  /\ handler' \in [Handlers -> HandlerRecord]
           /\ handler'[h] = r
           /\ \A g \in Handlers : g # h => handler'[g] = handler[g]
  BY DEF Typed, Becomes

LEMMA AssignedStep ==
    ASSUME Typed, Assigned, NEW h \in Handlers, NEW r \in HandlerRecord, Becomes(h, r),
           r.task = Of(h)
    PROVE  Assigned' /\ \A g \in Handlers : Of(g)' = Of(g)
<1>1. \A g \in Handlers : Of(g)' = Of(g)
  BY BecomesOne DEF Of
<1> QED
  BY <1>1 DEF Assigned

\* A step that leaves the Linode alone.
LEMMA QuietStep ==
    ASSUME IInv, NEW h \in Handlers, NEW r \in HandlerRecord, Becomes(h, r),
           r.task = Of(h), Control(r), Done(r),
           UNCHANGED <<linode, events, skip, wasOn>>, failures' \in 0 .. MaxFailures
    PROVE  IInv'
<1> USE DEF IInv
<1>1. Typed'
  BY BecomesOne DEF Typed
<1>2. JobInv'
  BY DEF JobInv, Busy, Last
<1>3. Assigned' /\ \A g \in Handlers : Of(g)' = Of(g)
  BY AssignedStep
<1>4. EventInv'
  BY <1>3 DEF EventInv, Told, Works
<1>5. ASSUME NEW g \in Handlers PROVE (Control(handler[g]) /\ Done(handler[g]))'
  <2>1. handler'[g] = IF g = h THEN r ELSE handler[g]
    BY BecomesOne
  <2>2. Control(handler'[g]) /\ Done(handler'[g])
    BY <2>1 DEF HandlersInv
  <2> QED
    BY <2>2 DEF Control, Done, DiskCalls, ConfigCalls
<1> QED
  BY <1>1, <1>2, <1>3, <1>4, <1>5 DEF HandlersInv

LEMMA HandlerFacts ==
    ASSUME IInv, NEW h \in Handlers
    PROVE  handler[h] \in HandlerRecord /\ Control(handler[h]) /\ Done(handler[h])
  BY DEF IInv, Typed, HandlersInv

LEMMA QuietFacts ==
    ASSUME IInv, Quietly
    PROVE  UNCHANGED <<linode, events, skip, wasOn>> /\ failures' \in 0 .. MaxFailures
  BY DEF IInv, Typed, Quietly

\* An error ends the handler: nothing is promised of it.
LEMMA FailStep ==
    ASSUME IInv, NEW h \in Handlers, Fail(h),
           UNCHANGED <<linode, events, skip, wasOn>>, failures' \in 0 .. MaxFailures
    PROVE  IInv'
<1> DEFINE r == [handler[h] EXCEPT !.pc = "end", !.result = "error"]
<1>1. Becomes(h, r)
  BY DEF Fail, End
<1>2. r \in HandlerRecord /\ r.task = Of(h)
  BY HandlerFacts DEF HandlerRecord, Places, Of
<1>3. Control(r)
  BY HandlerFacts DEF Control, HandlerRecord, CallSteps, PlacesOf, TaskRecord, DiskVerbs, ConfigVerbs
<1>4. Done(r)
  BY DEF Done, Past, CallSteps
<1> QED
  BY <1>1, <1>2, <1>3, <1>4, QuietStep

\* The call that a handler makes tells what its task is.
LEMMA CallFacts ==
    ASSUME IInv, NEW h \in Handlers, handler[h].pc \in CallSteps
    PROVE  \/ handler[h].task.verb \in DiskVerbs /\ DiskCalls(handler[h])
           \/ handler[h].task.verb = "remove" /\ Makes(handler[h], "shutdown", Nothing, "drop")
           \/ handler[h].task.verb = "reboot" /\ Makes(handler[h], "reboot", Nothing, "rebooted")
           \/ handler[h].task.verb \in {"create", "change", "rewire"} /\ ConfigCalls(handler[h])
<1>1. handler[h].task.verb \in DiskVerbs \union {"create", "change", "rewire", "remove", "reboot"}
  BY HandlerFacts DEF HandlerRecord, TaskRecord, ConfigVerbs
<1> QED
  BY <1>1, HandlerFacts DEF Control

\* A failed call ends the handler, or has it go on where the error is noted or not
\* looked at.
LEMMA FailCallStep ==
    ASSUME IInv, NEW h \in Handlers, FailCall(h), handler[h].pc \in CallSteps,
           UNCHANGED <<linode, events, skip, wasOn>>, failures' \in 0 .. MaxFailures
    PROVE  IInv'
<1>1. CASE handler[h].call.action = "disk_delete"
  <2> DEFINE r == [handler[h] EXCEPT !.pc = "list", !.noted = TRUE]
  <2>6. handler[h].task.verb = "delete" /\ handler[h].next = "list"
    BY <1>1, CallFacts DEF DiskCalls, ConfigCalls, Makes
  <2>1. Becomes(h, r)
    BY <1>1, <2>6 DEF FailCall, Ignores
  <2>2. r \in HandlerRecord /\ r.task = Of(h)
    BY HandlerFacts, ZenonT(30) DEF HandlerRecord, Places, Of
  <2>3. Of(h).verb = "delete"
    BY <2>6 DEF Of
  <2>4. Control(r)
    BY <2>2, <2>3, HandlerFacts DEF Control, HandlerRecord, CallSteps, PlacesOf, DiskVerbs, Of
  <2>5. Done(r)
    BY <2>2, <2>3, HandlerFacts DEF Done, Past, Control, CallSteps, HandlerRecord, Of
  <2> QED
    BY <2>1, <2>2, <2>4, <2>5, QuietStep
<1>2. CASE handler[h].call.action # "disk_delete" /\ Ignores(h)
  <2> DEFINE r == [handler[h] EXCEPT !.pc = "apply"]
  <2>1. Becomes(h, r)
    BY <1>2 DEF FailCall, Goto
  <2>2. r \in HandlerRecord /\ r.task = Of(h)
    BY HandlerFacts DEF HandlerRecord, Places, Of
  <2>3. Of(h).verb = "rewire"
    BY <1>2, CallFacts, HandlerFacts DEF Control, DiskCalls, ConfigCalls, Makes, Ignores, Of
  <2>4. Control(r)
    BY <2>2, <2>3, HandlerFacts DEF Control, HandlerRecord, CallSteps, PlacesOf, DiskVerbs, Of
  <2>5. Done(r)
    BY <2>2, <2>3, HandlerFacts DEF Done, Of
  <2> QED
    BY <2>1, <2>2, <2>4, <2>5, QuietStep
<1> QED
  BY <1>1, <1>2, FailStep DEF FailCall

-----------------------------------------------------------------------------
(* The steps that only change the handler. *)

LEMMA WatchStep ==
    ASSUME IInv, NEW h \in Handlers, Watch(h)
    PROVE  IInv'
<1> DEFINE r == [handler[h] EXCEPT !.pc = "request", !.watch = Len(events)]
<1>1. Becomes(h, r) /\ handler[h].pc = "watch"
  BY DEF Watch, At
<1>2. Len(events) \in Nat
  BY DEF IInv, Typed
<1>3. r \in HandlerRecord /\ r.task = Of(h)
  BY <1>2, HandlerFacts, ZenonT(30) DEF HandlerRecord, Places, CallSteps, Of
<1>4. Control(r)
  BY <1>1, <1>2, HandlerFacts DEF Control, CallSteps, DiskCalls, ConfigCalls, Makes, HandlerRecord
<1>5. Done(r)
  BY <1>1, HandlerFacts DEF Done, Past, CallSteps, HandlerRecord
<1> QED
  BY <1>1, <1>3, <1>4, <1>5, QuietStep, QuietFacts DEF Watch

\* A handler whose disk operation has finished finds the disk so.
LEMMA AwaitedEffect ==
    ASSUME IInv, NEW h \in Handlers, At(h, "await"), Polled(h) # {},
           EventOf(h).status = "finished"
    PROVE  /\ handler[h].call.action = "disk_resize" => linode.disks[handler[h].call.on] = "new"
           /\ handler[h].call.action = "disk_delete" => linode.disks[handler[h].call.on] = "gone"
<1>1. LatestOf(Polled(h)) \in Polled(h)
  <2>1. Polled(h) \subseteq DOMAIN events
    BY DEF Polled
  <2> QED
    BY <2>1, LatestIsLast DEF IInv
<1> DEFINE i == LatestOf(Polled(h))
<1>2. /\ i \in DOMAIN events /\ events[i].action = handler[h].call.action
      /\ events[i].action \in DiskActions => events[i].on = handler[h].call.on
  BY <1>1 DEF Polled, DiskActions
<1>3. events[i].action \in DiskActions =>
          linode.disks[events[i].on] = IF events[i].action = "disk_resize" THEN "new" ELSE "gone"
  BY <1>2 DEF IInv, EventInv, Told, EventOf
<1> QED
  BY <1>2, <1>3 DEF DiskActions

LEMMA AwaitStep ==
    ASSUME IInv, NEW h \in Handlers, Await(h)
    PROVE  IInv'
<1> DEFINE next == handler[h].next
<1>1. handler[h].pc = "await" /\ handler[h].pc \in CallSteps
  BY DEF Await, At, CallSteps
<1>2. UNCHANGED <<linode, events, skip, wasOn>> /\ failures' \in 0 .. MaxFailures
  BY QuietFacts DEF Await
<1>3. CASE EventOf(h).status # "finished"
  BY <1>1, <1>2, <1>3, FailCallStep DEF Await
<1>4. CASE EventOf(h).status = "finished"
  <2>1. Return(h, next)
    BY <1>4 DEF Await
  <2>2. handler[h].call.action = "disk_resize" => linode.disks[handler[h].call.on] = "new"
    BY <1>4, AwaitedEffect DEF Await
  <2>3. handler[h].call.action = "disk_delete" => linode.disks[handler[h].call.on] = "gone"
    BY <1>4, AwaitedEffect DEF Await
  <2>4. handler[h].result = "none" /\ handler[h] \in HandlerRecord
    BY <1>1, HandlerFacts DEF Control, HandlerRecord
  <2>5. CASE next = "unlooked"
    <3> DEFINE r == [handler[h] EXCEPT !.pc = "apply"]
    <3>1. Becomes(h, r)
      BY <2>1, <2>5 DEF Return, Goto
    <3>2. r \in HandlerRecord /\ r.task = Of(h)
      BY <2>4 DEF HandlerRecord, Places, Of
    <3>3. Of(h).verb = "rewire"
      BY <1>1, <2>5, CallFacts, HandlerFacts DEF Control, DiskCalls, ConfigCalls, Makes, Of
    <3>4. Control(r) /\ Done(r)
      BY <2>4, <3>2, <3>3, HandlerFacts
         DEF Control, Done, HandlerRecord, CallSteps, PlacesOf, DiskVerbs, Of
    <3> QED
      BY <1>2, <3>1, <3>2, <3>4, QuietStep
  <2>6. CASE next = "end"
    <3> DEFINE r == [handler[h] EXCEPT !.pc = "end",
                                       !.result = IF handler[h].noted THEN "error" ELSE "ok"]
    <3>1. Becomes(h, r)
      BY <2>1, <2>6 DEF Return, End
    <3>2. r \in HandlerRecord /\ r.task = Of(h)
      BY <2>4 DEF HandlerRecord, Places, Of
    <3>3. Control(r)
      BY <2>4, <3>2, HandlerFacts
         DEF Control, HandlerRecord, CallSteps, PlacesOf, DiskVerbs, ConfigVerbs, TaskRecord, Of
    <3>4. handler[h].task.verb # "remove"
             /\ (handler[h].task.verb \in DiskVerbs => handler[h].call.action = "boot")
      BY <1>1, <2>6, CallFacts DEF DiskCalls, ConfigCalls, Makes, DiskVerbs
    <3>5. Done(r)
      BY <1>1, <2>4, <3>4, HandlerFacts DEF Done, Past, DiskVerbs, HandlerRecord
    <3> QED
      BY <1>2, <3>1, <3>2, <3>3, <3>5, QuietStep
  <2>7. CASE next \notin {"unlooked", "end"}
    <3> DEFINE r == [handler[h] EXCEPT !.pc = next]
    <3>1. Becomes(h, r)
      BY <2>1, <2>7 DEF Return, Goto
    <3>2. next \in PlacesOf(handler[h].task.verb) \ {"start", "end", "running", "safe", "settle"}
      BY <1>1, <2>7, CallFacts, HandlerFacts
         DEF DiskCalls, ConfigCalls, Makes, DiskVerbs, PlacesOf, Control
    <3>3. r \in HandlerRecord /\ r.task = Of(h)
      <4>1. next \in Places
        BY <2>4, <2>7, <3>2 DEF HandlerRecord, Returns, Places, PlacesOf, TaskRecord, DiskVerbs, ConfigVerbs
      <4> QED
        BY <2>4, <4>1 DEF HandlerRecord, Of
    <3>4. Control(r)
      BY <2>4, <3>2, <3>3, HandlerFacts
         DEF Control, HandlerRecord, CallSteps, PlacesOf, TaskRecord, DiskVerbs, ConfigVerbs
    <3>5. Done(r)
      <4>1. r.task.verb = "resize" /\ next \in {"check", "list"} => linode.disks[r.task.on] = "new"
        BY <1>1, <2>2, <3>3, CallFacts DEF DiskCalls, ConfigCalls, Makes, DiskVerbs, Of
      <4>2. r.task.verb = "delete" /\ next = "list" => linode.disks[r.task.on] = "gone"
        BY <1>1, <2>3, <3>3, CallFacts DEF DiskCalls, ConfigCalls, Makes, DiskVerbs, Of
      <4>3. next \notin CallSteps
        BY <2>4 DEF HandlerRecord, Returns, CallSteps, Nothing
      <4> QED
        BY <2>4, <4>1, <4>2, <4>3 DEF Done, Past, HandlerRecord
    <3> QED
      BY <1>2, <3>1, <3>3, <3>4, <3>5, QuietStep
  <2> QED
    BY <2>5, <2>6, <2>7
<1> QED
  BY <1>3, <1>4

\* What follows a wait for a steady power state.
LEMMA WithStatusStep ==
    ASSUME IInv, NEW h \in Handlers, NEW status \in {"running", "offline"}, WithStatus(h, status),
           Of(h).verb \in DiskVerbs \/ handler[h].off,
           handler[h].pc \in {"start", "safe", "settle"},
           UNCHANGED <<linode, events, skip, wasOn>>, failures' \in 0 .. MaxFailures
    PROVE  IInv'
<1> DEFINE work == IF Of(h).verb \in DiskVerbs THEN "operate" ELSE "put"
           q == [handler[h] EXCEPT !.status = status]
           rest == [q EXCEPT !.pc = work]
           call == Calling(q, "shutdown", Nothing, work)
<1>1. handler[h] \in HandlerRecord /\ handler[h].result = "none"
  BY HandlerFacts DEF Control
<1>2. \/ Becomes(h, rest)
      \/ Becomes(h, call) /\ status = "running"
      \/ Fail(h)
  BY DEF WithStatus
<1>3. CASE Becomes(h, rest)
  <2>1. rest \in HandlerRecord /\ rest.task = Of(h)
    BY <1>1 DEF HandlerRecord, Places, Powers, Of
  <2>2. /\ rest.pc = work /\ rest.task = handler[h].task /\ rest.result = "none"
        /\ rest.off = handler[h].off /\ rest.noted = handler[h].noted /\ rest.watch = handler[h].watch
    BY <1>1 DEF HandlerRecord
  <2>3. work \in PlacesOf(handler[h].task.verb) /\ work \in {"operate", "put"}
    BY HandlerFacts DEF Control, PlacesOf, DiskVerbs, Of
  <2>4. Control(rest)
    <3> HIDE DEF rest, work
    <3> QED
      BY <2>2, <2>3, HandlerFacts DEF Control, CallSteps
  <2>5. Done(rest)
    <3> HIDE DEF rest, work
    <3> QED
      BY <2>2, <2>3 DEF Done, Past, CallSteps
  <2> QED
    BY <1>3, <2>1, <2>4, <2>5, QuietStep
<1>4. CASE Becomes(h, call) /\ status = "running"
  <2>1. call \in HandlerRecord /\ call.task = Of(h)
    BY <1>1, ZenonT(30) DEF HandlerRecord, Calling, CallRecord, Actions, Subjects, Returns, Places, CallSteps, Powers, Of
  <2>2. /\ call.pc = "watch" /\ call.task = handler[h].task /\ call.result = "none"
        /\ call.off = handler[h].off /\ call.noted = handler[h].noted /\ call.watch = handler[h].watch
        /\ call.status = "running" /\ Makes(call, "shutdown", Nothing, work)
    BY <1>1, <1>4 DEF HandlerRecord, Calling, Makes
  <2>3. IF call.task.verb \in DiskVerbs THEN DiskCalls(call)
        ELSE call.task.verb = "rewire" /\ ConfigCalls(call)
    <3> HIDE DEF call
    <3> QED
      BY <2>2, HandlerFacts DEF Control, DiskCalls, ConfigCalls, Of
  <2>4. Control(call)
    <3> HIDE DEF call, work
    <3> QED
      BY <2>2, <2>3, HandlerFacts DEF Control, CallSteps, DiskVerbs
  <2>5. Done(call)
    <3> HIDE DEF call, work
    <3> QED
      BY <2>2 DEF Done, Past, CallSteps, Makes
  <2> QED
    BY <1>4, <2>1, <2>4, <2>5, QuietStep
<1> QED
  BY <1>2, <1>3, <1>4, FailStep

LEMMA FindStatusStep ==
    ASSUME IInv, NEW h \in Handlers, FindStatus(h), handler[h].pc \in {"start", "safe"},
           Of(h).verb \in DiskVerbs \/ handler[h].off
    PROVE  IInv'
<1>1. UNCHANGED <<linode, events, skip, wasOn>> /\ failures' \in 0 .. MaxFailures
  BY QuietFacts DEF FindStatus
<1>2. CASE Settled(linode.power)
  BY <1>1, <1>2, WithStatusStep DEF FindStatus, Settled
<1>3. CASE ~Settled(linode.power)
  <2> DEFINE r == [handler[h] EXCEPT !.pc = "settle", !.status = Steady(linode.power)]
  <2>1. Becomes(h, r)
    BY <1>3 DEF FindStatus
  <2>2. handler[h] \in HandlerRecord /\ handler[h].result = "none"
           /\ Steady(linode.power) \in {"running", "offline"}
    BY HandlerFacts DEF Control, Steady
  <2>3. r \in HandlerRecord /\ r.task = Of(h)
    BY <2>2 DEF HandlerRecord, Places, Powers, Of
  <2>4. Control(r) /\ Done(r)
    BY <2>2, <2>3, HandlerFacts
       DEF Control, Done, Past, HandlerRecord, CallSteps, PlacesOf, TaskRecord, DiskVerbs, ConfigVerbs, Of
  <2> QED
    BY <1>1, <2>1, <2>3, <2>4, QuietStep
<1> QED
  BY <1>2, <1>3

LEMMA SettleStep ==
    ASSUME IInv, NEW h \in Handlers, Settle(h)
    PROVE  IInv'
<1>1. UNCHANGED <<linode, events, skip, wasOn>> /\ failures' \in 0 .. MaxFailures
  BY QuietFacts DEF Settle
<1>2. handler[h].pc = "settle" /\ handler[h].status \in {"running", "offline"}
         /\ (Of(h).verb \in DiskVerbs \/ handler[h].off)
  BY HandlerFacts DEF Settle, At, Control, Of
<1> QED
  BY <1>1, <1>2, WithStatusStep DEF Settle

LEMMA StartDiskStep ==
    ASSUME IInv, NEW h \in Handlers, StartDisk(h)
    PROVE  IInv'
  BY FindStatusStep DEF StartDisk, At

LEMMA SafeShutdownStep ==
    ASSUME IInv, NEW h \in Handlers, SafeShutdown(h)
    PROVE  IInv'
<1>1. handler[h].pc = "safe" /\ (Of(h).verb \in DiskVerbs \/ handler[h].off)
  BY HandlerFacts DEF SafeShutdown, At, Control, Of
<1> QED
  BY <1>1, FindStatusStep DEF SafeShutdown

-----------------------------------------------------------------------------
(* Going on without a call, ending, and making a call. *)

LEMMA GotoStep ==
    ASSUME IInv, NEW h \in Handlers, NEW pc, Goto(h, pc),
           handler[h].pc \notin CallSteps \union {"end"},
           pc \in PlacesOf(Of(h).verb) \ {"start", "end", "settle", "safe", "running"},
           pc = "check" => FALSE,
           pc = "list" => Of(h).verb = "resize" /\ linode.disks[Of(h).on] = "new",
           UNCHANGED <<linode, events, skip, wasOn>>, failures' \in 0 .. MaxFailures
    PROVE  IInv'
<1> DEFINE r == [handler[h] EXCEPT !.pc = pc]
<1>1. Becomes(h, r)
  BY DEF Goto
<1>2. handler[h] \in HandlerRecord /\ handler[h].result = "none"
  BY HandlerFacts DEF Control, HandlerRecord
<1>3. pc \in Places \ CallSteps
  BY <1>2 DEF HandlerRecord, PlacesOf, TaskRecord, DiskVerbs, ConfigVerbs, Places, CallSteps, Of
<1>4. r \in HandlerRecord /\ r.task = Of(h)
  BY <1>2, <1>3 DEF HandlerRecord, Of
<1>5. Control(r) /\ Done(r)
  BY <1>2, <1>3, <1>4, HandlerFacts DEF Control, Done, Past, HandlerRecord, Of
<1> QED
  BY <1>1, <1>4, <1>5, QuietStep

LEMMA EndOkStep ==
    ASSUME IInv, NEW h \in Handlers, End(h, "ok"),
           Of(h).verb \notin {"resize", "delete", "remove"},
           UNCHANGED <<linode, events, skip, wasOn>>, failures' \in 0 .. MaxFailures
    PROVE  IInv'
<1> DEFINE r == [handler[h] EXCEPT !.pc = "end", !.result = "ok"]
<1>1. Becomes(h, r) /\ handler[h] \in HandlerRecord
  BY HandlerFacts DEF End
<1>2. r \in HandlerRecord /\ r.task = Of(h)
  BY <1>1 DEF HandlerRecord, Places, Of
<1>3. /\ r.pc = "end" /\ r.task = handler[h].task /\ r.off = handler[h].off
      /\ r.noted = handler[h].noted /\ r.watch = handler[h].watch
  BY <1>1 DEF HandlerRecord
<1>4. /\ "end" \in PlacesOf(handler[h].task.verb) /\ "end" \notin CallSteps
      /\ handler[h].task.verb \notin {"resize", "delete", "remove"}
  BY <1>1 DEF HandlerRecord, TaskRecord, PlacesOf, CallSteps, DiskVerbs, ConfigVerbs, Of
<1> HIDE DEF r
<1>5. Control(r) /\ Done(r)
  <2>1. Control(r)
    BY <1>3, <1>4, HandlerFacts DEF Control
  <2>2. Done(r)
    BY <1>3, <1>4 DEF Done, Past
  <2> QED
    BY <2>1, <2>2
<1> QED
  BY <1>1, <1>2, <1>5, QuietStep

\* The record q is the handler's, with what it has read; the call is one of its task.
LEMMA CallingStep ==
    ASSUME IInv, NEW h \in Handlers, NEW q \in HandlerRecord, NEW action \in Actions,
           NEW on \in Subjects, NEW next \in Returns,
           Becomes(h, Calling(q, action, on, next)),
           q.task = Of(h), Control(Calling(q, action, on, next)), Done(Calling(q, action, on, next)),
           UNCHANGED <<linode, events, skip, wasOn>>, failures' \in 0 .. MaxFailures
    PROVE  IInv'
<1>1. Calling(q, action, on, next) \in HandlerRecord /\ Calling(q, action, on, next).task = Of(h)
  BY DEF Calling, HandlerRecord, CallRecord, Places, CallSteps
<1> QED
  BY <1>1, QuietStep

LEMMA OperateStep ==
    ASSUME IInv, NEW h \in Handlers, Operate(h)
    PROVE  IInv'
<1>1. UNCHANGED <<linode, events, skip, wasOn>> /\ failures' \in 0 .. MaxFailures
  BY QuietFacts DEF Operate
<1>2. handler[h] \in HandlerRecord /\ handler[h].pc = "operate" /\ handler[h].result = "none"
  BY HandlerFacts DEF Operate, At, Control
<1>3. Of(h).verb \in DiskVerbs /\ Of(h).on \in Subjects
  BY <1>2, HandlerFacts DEF Control, HandlerRecord, TaskRecord, PlacesOf, CallSteps, DiskVerbs, ConfigVerbs, Subjects, Of
<1>4. CASE Of(h).verb = "resize"
  <2> DEFINE r == Calling(handler[h], "disk_resize", Of(h).on, "check")
  <2>1. Becomes(h, r)
    BY <1>4 DEF Operate, Do
  <2>2. Control(r) /\ Done(r)
    BY <1>2, <1>4, HandlerFacts
       DEF Control, Done, Past, Calling, HandlerRecord, CallSteps, DiskVerbs, Of, DiskCalls, Makes
  <2> QED
    BY <1>1, <1>2, <1>3, <2>1, <2>2, CallingStep DEF Actions, Returns, Of
<1>5. CASE Of(h).verb = "delete"
  <2> DEFINE r == Calling(handler[h], "disk_delete", Of(h).on, "list")
  <2>1. Becomes(h, r)
    BY <1>5 DEF Operate, Do
  <2>2. Control(r) /\ Done(r)
    BY <1>2, <1>5, HandlerFacts
       DEF Control, Done, Past, Calling, HandlerRecord, CallSteps, DiskVerbs, Of, DiskCalls, Makes
  <2> QED
    BY <1>1, <1>2, <1>3, <2>1, <2>2, CallingStep DEF Actions, Returns, Of
<1> QED
  BY <1>3, <1>4, <1>5 DEF DiskVerbs

LEMMA CheckSizeStep ==
    ASSUME IInv, NEW h \in Handlers, CheckSize(h)
    PROVE  IInv'
<1>1. UNCHANGED <<linode, events, skip, wasOn>> /\ failures' \in 0 .. MaxFailures
  BY QuietFacts DEF CheckSize
<1>2. handler[h].pc = "check" /\ Of(h).verb = "resize"
  BY HandlerFacts DEF CheckSize, At, Control, HandlerRecord, TaskRecord, PlacesOf, CallSteps, DiskVerbs, ConfigVerbs, Of
<1> QED
  BY <1>1, <1>2, GotoStep, FailStep DEF CheckSize, PlacesOf, CallSteps

LEMMA ListDisksStep ==
    ASSUME IInv, NEW h \in Handlers, ListDisks(h)
    PROVE  IInv'
<1>1. UNCHANGED <<linode, events, skip, wasOn>> /\ failures' \in 0 .. MaxFailures
  BY QuietFacts DEF ListDisks
<1>2. handler[h] \in HandlerRecord /\ handler[h].pc = "list" /\ handler[h].result = "none"
  BY HandlerFacts DEF ListDisks, At, Control
<1>3. Of(h).verb \in DiskVerbs
  BY <1>2, HandlerFacts DEF Control, HandlerRecord, TaskRecord, PlacesOf, CallSteps, DiskVerbs, ConfigVerbs, Of
<1>4. CASE Do(h, "boot", Nothing, "end") /\ handler[h].status = "running"
  <2> DEFINE r == Calling(handler[h], "boot", Nothing, "end")
  <2>1. Becomes(h, r)
    BY <1>4 DEF Do
  <2>2. Control(r) /\ Done(r)
    BY <1>2, <1>3, <1>4, HandlerFacts
       DEF Control, Done, Past, Calling, HandlerRecord, CallSteps, DiskVerbs, Of, DiskCalls, Makes
  <2> QED
    BY <1>1, <1>2, <2>1, <2>2, CallingStep DEF Actions, Returns, Subjects, Of
<1>5. CASE Return(h, "end")
  <2> DEFINE r == [handler[h] EXCEPT !.pc = "end",
                                     !.result = IF handler[h].noted THEN "error" ELSE "ok"]
  <2>1. Becomes(h, r)
    BY <1>5 DEF Return, End
  <2>2. r \in HandlerRecord /\ r.task = Of(h)
    BY <1>2 DEF HandlerRecord, Places, Of
  <2>3. /\ r.pc = "end" /\ r.task = handler[h].task /\ r.off = handler[h].off
        /\ r.noted = handler[h].noted /\ r.watch = handler[h].watch
        /\ r.result = "ok" => ~handler[h].noted
    BY <1>2 DEF HandlerRecord
  <2>4. "end" \in PlacesOf(handler[h].task.verb) /\ "end" \notin CallSteps
    BY <1>3 DEF PlacesOf, CallSteps, DiskVerbs, Of
  <2>5. /\ handler[h].task.verb = "resize" => linode.disks[handler[h].task.on] = "new"
        /\ handler[h].task.verb = "delete" =>
              handler[h].noted \/ linode.disks[handler[h].task.on] = "gone"
    BY <1>2, HandlerFacts DEF Done, Past
  <2> HIDE DEF r
  <2>6. Control(r)
    BY <2>3, <2>4, HandlerFacts DEF Control
  <2>7. Done(r)
    BY <1>3, <2>3, <2>4, <2>5 DEF Done, Past, DiskVerbs, Of
  <2>8. Control(r) /\ Done(r)
    BY <2>6, <2>7
  <2> QED
    BY <1>1, <2>1, <2>2, <2>8, QuietStep
<1> QED
  BY <1>4, <1>5 DEF ListDisks

-----------------------------------------------------------------------------
(* The handlers of a config, and those that reboot. *)

LEMMA ConfigTask ==
    ASSUME IInv, NEW h \in Handlers,
           handler[h].pc \in {"inspect", "put", "apply", "decide", "running", "removal", "drop"}
    PROVE  /\ Of(h).verb \in ConfigVerbs /\ Of(h).on \in Configs
           /\ Of(h).booted \in {"unset", "true", "false"}
           /\ handler[h].pc \in PlacesOf(Of(h).verb)
           /\ handler[h] \in HandlerRecord /\ handler[h].result = "none"
<1>1. handler[h] \in HandlerRecord /\ handler[h].pc \in PlacesOf(handler[h].task.verb)
         /\ handler[h].result = "none"
  BY HandlerFacts DEF Control, CallSteps
<1>2. handler[h].task \in TaskRecord
  BY <1>1 DEF HandlerRecord
<1>3. handler[h].task.verb \in ConfigVerbs
  BY <1>1, <1>2 DEF PlacesOf, TaskRecord, DiskVerbs, ConfigVerbs
<1> QED
  BY <1>1, <1>2, <1>3 DEF TaskRecord, DiskVerbs, ConfigVerbs, Of

\* What comes of a boot event is a config.
LEMMA CurrentIsConfig ==
    ASSUME IInv
    PROVE  CurrentBootedConfig \in Configs \union {Nothing}
<1>1. CASE BootEvents = {}
  BY <1>1 DEF CurrentBootedConfig
<1>2. CASE BootEvents # {}
  <2>1. LatestOf(BootEvents) \in BootEvents
    BY <1>2, LatestIsLast DEF IInv, BootEvents
  <2>2. events[LatestOf(BootEvents)].on \in Configs
    BY <2>1 DEF IInv, EventInv, Told, Boots, BootEvents
  <2> QED
    BY <2>2 DEF CurrentBootedConfig
<1> QED
  BY <1>1, <1>2

LEMMA StartConfigStep ==
    ASSUME IInv, NEW h \in Handlers, StartConfig(h)
    PROVE  IInv'
<1>1. UNCHANGED <<linode, events, skip, wasOn>> /\ failures' \in 0 .. MaxFailures
  BY QuietFacts DEF StartConfig
<1>2. handler[h] \in HandlerRecord /\ handler[h].pc = "start" /\ handler[h].result = "none"
         /\ linode.power \in Powers /\ Of(h).verb \in ConfigVerbs
  BY HandlerFacts DEF StartConfig, At, Control, IInv, Typed, LinodeRecord
<1>3. CASE Of(h).verb = "create"
  BY <1>1, <1>2, <1>3, GotoStep DEF StartConfig, PlacesOf, CallSteps
<1>4. CASE Of(h).verb # "create"
  <2> DEFINE pc == IF Of(h).verb = "remove" THEN "removal" ELSE "inspect"
             r == [handler[h] EXCEPT !.pc = pc, !.status = linode.power]
  <2>1. Becomes(h, r)
    BY <1>4 DEF StartConfig
  <2>2. r \in HandlerRecord /\ r.task = Of(h) /\ r.pc = pc
    BY <1>2 DEF HandlerRecord, Places, Of
  <2>3. Control(r)
    BY <1>2, <1>4, <2>2, HandlerFacts DEF Control, HandlerRecord, CallSteps, PlacesOf, ConfigVerbs, Of
  <2>4. Done(r)
    BY <1>2 DEF Done, Past, HandlerRecord, CallSteps
  <2> QED
    BY <1>1, <2>1, <2>2, <2>3, <2>4, QuietStep
<1> QED
  BY <1>3, <1>4

LEMMA InspectStep ==
    ASSUME IInv, NEW h \in Handlers, Inspect(h)
    PROVE  IInv'
<1>1. UNCHANGED <<linode, events, skip, wasOn>> /\ failures' \in 0 .. MaxFailures
  BY QuietFacts DEF Inspect
<1>2. handler[h].pc = "inspect"
  BY DEF Inspect, At
<1> DEFINE mine == CurrentBootedConfig = Of(h).on /\ handler[h].status = "running"
           off == Of(h).verb = "rewire" /\ mine
           reboot == mine /\ ~off /\ ~skip
           r == [handler[h] EXCEPT !.off = off, !.reboot = reboot,
                                   !.pc = IF off THEN "safe" ELSE "put"]
<1>3. Fail(h) \/ Becomes(h, r)
  BY DEF Inspect
<1>4. CASE Becomes(h, r)
  <2>1. r \in HandlerRecord /\ r.task = Of(h)
    <3>1. off \in BOOLEAN /\ reboot \in BOOLEAN
      OBVIOUS
    <3>2. \A x, y \in BOOLEAN, pc \in {"safe", "put"} :
             LET made == [handler[h] EXCEPT !.off = x, !.reboot = y, !.pc = pc]
             IN  made \in HandlerRecord /\ made.task = Of(h)
      <4>1. handler[h] \in HandlerRecord
        BY HandlerFacts
      <4> QED
        BY <4>1, ZenonT(30) DEF HandlerRecord, Places, Of
    <3>3. (IF off THEN "safe" ELSE "put") \in {"safe", "put"}
      OBVIOUS
    <3> HIDE DEF off, reboot
    <3> QED
      BY <3>1, <3>2, <3>3
  <2>2. /\ r.pc = IF off THEN "safe" ELSE "put"
        /\ r.off = off /\ r.result = "none"
        /\ r.noted = handler[h].noted /\ r.watch = handler[h].watch
    BY <1>2, ConfigTask DEF HandlerRecord
  <2>3. Of(h).verb \in {"change", "rewire"} /\ handler[h].task = Of(h)
    BY <1>2, ConfigTask DEF PlacesOf, ConfigVerbs, Of
  <2>4. Control(r)
    <3> HIDE DEF r, off
    <3> QED
      BY <2>1, <2>2, <2>3, HandlerFacts DEF Control, CallSteps, PlacesOf, DiskVerbs, off
  <2>5. Done(r)
    BY <2>2, <2>1, <2>3 DEF Done, Past, CallSteps
  <2> QED
    BY <1>1, <1>4, <2>1, <2>4, <2>5, QuietStep
<1> QED
  BY <1>1, <1>3, <1>4, FailStep

LEMMA ApplyStep ==
    ASSUME IInv, NEW h \in Handlers, Apply(h)
    PROVE  IInv'
<1>1. UNCHANGED <<linode, events, skip, wasOn>> /\ failures' \in 0 .. MaxFailures
  BY QuietFacts DEF Apply
<1>2. handler[h].pc = "apply" /\ linode.power \in Powers
  BY DEF Apply, At, IInv, Typed, LinodeRecord
<1>3. Of(h).verb \in {"create", "change", "rewire"}
  BY <1>2, ConfigTask DEF PlacesOf, ConfigVerbs
<1>4. CASE Manages(h)
  <2> DEFINE r == [handler[h] EXCEPT !.pc = "decide", !.status = linode.power]
  <2>1. Becomes(h, r)
    BY <1>4 DEF Apply
  <2>2. r \in HandlerRecord /\ r.task = Of(h)
    BY <1>2, ConfigTask, ZenonT(30) DEF HandlerRecord, Places, Of
  <2>3. Control(r) /\ Done(r)
    BY <1>2, <1>3, <2>2, ConfigTask, HandlerFacts
       DEF Control, Done, Past, HandlerRecord, CallSteps, PlacesOf, DiskVerbs, Of
  <2> QED
    BY <1>1, <2>1, <2>2, <2>3, QuietStep
<1> QED
  BY <1>1, <1>3, <1>4, EndOkStep DEF Apply

LEMMA DecideStep ==
    ASSUME IInv, NEW h \in Handlers, Decide(h)
    PROVE  IInv'
<1>1. UNCHANGED <<linode, events, skip, wasOn>> /\ failures' \in 0 .. MaxFailures
  BY QuietFacts DEF Decide
<1>2. handler[h].pc = "decide"
  BY DEF Decide, At
<1>3. Of(h).verb \in {"create", "change", "rewire"} /\ handler[h] \in HandlerRecord
         /\ handler[h].result = "none"
  BY <1>2, ConfigTask DEF PlacesOf, ConfigVerbs
<1> DEFINE q == [handler[h] EXCEPT !.current = CurrentBootedConfig]
           runs == [q EXCEPT !.pc = "running"]
           boots == Calling(q, "boot", Of(h).on, "end")
<1>4. q \in HandlerRecord /\ q.task = Of(h)
  BY <1>3, CurrentIsConfig DEF HandlerRecord, Of
<1>5. \/ Becomes(h, runs) /\ Of(h).booted \in {"true", "false"}
      \/ Becomes(h, boots) /\ Of(h).booted = "true"
      \/ End(h, "ok")
  BY DEF Decide
<1>6. CASE Becomes(h, runs) /\ Of(h).booted \in {"true", "false"}
  <2>1. runs \in HandlerRecord /\ runs.task = Of(h)
    BY <1>4 DEF HandlerRecord, Places
  <2>2. Control(runs) /\ Done(runs)
    BY <1>2, <1>3, <1>6, <2>1, HandlerFacts
       DEF Control, Done, Past, HandlerRecord, CallSteps, PlacesOf, DiskVerbs, Of
  <2> QED
    BY <1>1, <1>6, <2>1, <2>2, QuietStep
<1>7. CASE Becomes(h, boots) /\ Of(h).booted = "true"
  <2>1. /\ boots.task = Of(h) /\ boots.result = "none" /\ boots.pc = "watch"
        /\ boots.off = handler[h].off /\ boots.noted = handler[h].noted
        /\ boots.watch = handler[h].watch /\ Makes(boots, "boot", Of(h).on, "end")
    BY <1>3 DEF HandlerRecord, Calling, Makes, Of
  <2>2. Control(boots) /\ Done(boots)
    <3> HIDE DEF boots
    <3> QED
      BY <1>3, <1>7, <2>1, HandlerFacts DEF Control, Done, Past, CallSteps, ConfigCalls, DiskVerbs, Of
  <2>3. Of(h).on \in Configs
    BY <1>2, ConfigTask
  <2> QED
    BY <1>1, <1>4, <1>7, <2>2, <2>3, CallingStep DEF Actions, Subjects, Returns
<1> QED
  BY <1>1, <1>3, <1>5, <1>6, <1>7, EndOkStep

LEMMA RunningStep ==
    ASSUME IInv, NEW h \in Handlers, Running(h)
    PROVE  IInv'
<1>1. UNCHANGED <<linode, events, skip, wasOn>> /\ failures' \in 0 .. MaxFailures
  BY QuietFacts DEF Running
<1>2. handler[h].pc = "running"
  BY DEF Running, At
<1>3. /\ Of(h).verb \in {"create", "change", "rewire"} /\ Of(h).booted \in {"true", "false"}
      /\ Of(h).on \in Configs
      /\ handler[h] \in HandlerRecord /\ handler[h].result = "none"
  BY <1>2, ConfigTask, HandlerFacts DEF PlacesOf, ConfigVerbs, Control, Of
<1> DEFINE action == IF Of(h).booted = "true" THEN "reboot" ELSE "shutdown"
           on == IF Of(h).booted = "true" THEN Of(h).on ELSE Nothing
           r == Calling(handler[h], action, on, "end")
<1>4. Becomes(h, r)
  BY DEF Running, Do
<1>5. /\ r.task = Of(h) /\ r.result = "none" /\ r.pc = "watch"
      /\ r.off = handler[h].off /\ r.noted = handler[h].noted
      /\ r.watch = handler[h].watch /\ Makes(r, action, on, "end")
  BY <1>3 DEF HandlerRecord, Calling, Makes, Of
<1>6. Control(r) /\ Done(r)
  <2> HIDE DEF r
  <2> QED
    BY <1>3, <1>5, HandlerFacts DEF Control, Done, Past, CallSteps, ConfigCalls, DiskVerbs, Makes, Of
<1> QED
  BY <1>1, <1>3, <1>4, <1>5, <1>6, CallingStep DEF Actions, Subjects, Returns, Of

LEMMA RemovalStep ==
    ASSUME IInv, NEW h \in Handlers, Removal(h)
    PROVE  IInv'
<1>1. UNCHANGED <<linode, events, skip, wasOn>> /\ failures' \in 0 .. MaxFailures
  BY QuietFacts DEF Removal
<1>2. handler[h].pc = "removal"
  BY DEF Removal, At
<1>3. Of(h).verb = "remove" /\ handler[h] \in HandlerRecord /\ handler[h].result = "none"
  BY <1>2, ConfigTask DEF PlacesOf, ConfigVerbs
<1>4. CASE Goto(h, "drop")
  BY <1>1, <1>2, <1>3, <1>4, GotoStep DEF PlacesOf, CallSteps
<1>5. CASE Do(h, "shutdown", Nothing, "drop")
  <2> DEFINE r == Calling(handler[h], "shutdown", Nothing, "drop")
  <2>1. Becomes(h, r)
    BY <1>5 DEF Do
  <2>2. /\ r.task = Of(h) /\ r.result = "none" /\ r.pc = "watch"
        /\ r.off = handler[h].off /\ r.noted = handler[h].noted
        /\ r.watch = handler[h].watch /\ Makes(r, "shutdown", Nothing, "drop")
    BY <1>3 DEF HandlerRecord, Calling, Makes, Of
  <2>3. Control(r) /\ Done(r)
    <3> HIDE DEF r
    <3> QED
      BY <1>3, <2>2, HandlerFacts DEF Control, Done, Past, CallSteps, DiskVerbs, Makes, Of
  <2> QED
    BY <1>1, <1>3, <2>1, <2>2, <2>3, CallingStep DEF Actions, Subjects, Returns, Of
<1> QED
  BY <1>4, <1>5 DEF Removal

LEMMA StartRebootStep ==
    ASSUME IInv, NEW h \in Handlers, StartReboot(h)
    PROVE  IInv'
<1>1. UNCHANGED <<linode, events, skip, wasOn>> /\ failures' \in 0 .. MaxFailures
  BY QuietFacts DEF StartReboot
<1>2. handler[h].pc = "start" /\ Of(h).verb = "reboot"
         /\ handler[h] \in HandlerRecord /\ handler[h].result = "none"
  BY HandlerFacts DEF StartReboot, At, Control
<1>3. CASE Do(h, "reboot", Nothing, "rebooted")
  <2> DEFINE r == Calling(handler[h], "reboot", Nothing, "rebooted")
  <2>1. Becomes(h, r)
    BY <1>3 DEF Do
  <2>2. /\ r.task = Of(h) /\ r.result = "none" /\ r.pc = "watch"
        /\ r.off = handler[h].off /\ r.noted = handler[h].noted
        /\ r.watch = handler[h].watch /\ Makes(r, "reboot", Nothing, "rebooted")
    BY <1>2 DEF HandlerRecord, Calling, Makes, Of
  <2>3. Control(r) /\ Done(r)
    <3> HIDE DEF r
    <3> QED
      BY <1>2, <2>2, HandlerFacts DEF Control, Done, Past, CallSteps, DiskVerbs, Makes, Of
  <2> QED
    BY <1>1, <1>2, <2>1, <2>2, <2>3, CallingStep DEF Actions, Subjects, Returns, Of
<1>4. CASE End(h, "ok")
  BY <1>1, <1>2, <1>4, EndOkStep
<1> QED
  BY <1>3, <1>4 DEF StartReboot

LEMMA RebootedStep ==
    ASSUME IInv, NEW h \in Handlers, Rebooted(h)
    PROVE  IInv'
<1>1. UNCHANGED <<linode, events, skip, wasOn>> /\ failures' \in 0 .. MaxFailures
  BY QuietFacts DEF Rebooted
<1>2. Of(h).verb = "reboot"
  BY HandlerFacts DEF Rebooted, At, Control, HandlerRecord, TaskRecord, PlacesOf, CallSteps, DiskVerbs, ConfigVerbs, Of
<1> QED
  BY <1>1, <1>2, EndOkStep DEF Rebooted

LEMMA TimesOutStep ==
    ASSUME IInv, NEW h \in Handlers, TimesOut(h)
    PROVE  IInv'
  BY QuietFacts, FailStep DEF TimesOut

LEMMA CallFailsStep ==
    ASSUME IInv, NEW h \in Handlers, CallFails(h)
    PROVE  IInv'
<1>1. UNCHANGED <<linode, events, skip, wasOn>> /\ failures' \in 0 .. MaxFailures
  BY PowerAssumption DEF CallFails, API, Settings, IInv, Typed
<1>2. CASE ~Calls(h) /\ Fail(h)
  BY <1>1, <1>2, FailStep
<1>3. CASE Calls(h) /\ FailCall(h)
  BY <1>1, <1>3, FailCallStep DEF Calls, CallSteps
<1>4. CASE At(h, "inspect") /\ Goto(h, "put")
  BY <1>1, <1>4, ConfigTask, GotoStep DEF At, PlacesOf, CallSteps, ConfigVerbs
<1> QED
  BY <1>2, <1>3, <1>4 DEF CallFails

-----------------------------------------------------------------------------
(* The steps that change the Linode. *)

\* A step that leaves the power, the job and the disks alone.
LEMMA WriteStep ==
    ASSUME IInv, NEW h \in Handlers, NEW r \in HandlerRecord, Becomes(h, r),
           NEW pending \in SUBSET Configs, NEW configs \in SUBSET linode.configs,
           linode' = [linode EXCEPT !.pending = pending, !.configs = configs],
           r.task = Of(h), Control(r),
           Of(h).verb \in ConfigVerbs,
           Of(h).verb = "remove" /\ r.result = "ok" => Of(h).on \notin configs,
           UNCHANGED <<events, skip, wasOn, failures>>
    PROVE  IInv'
<1> USE DEF IInv
<1>1. /\ linode' \in LinodeRecord
      /\ linode'.power = linode.power /\ linode'.job = linode.job
      /\ linode'.disks = linode.disks /\ linode'.configs \subseteq linode.configs
      /\ linode'.configs = configs
  BY DEF Typed, LinodeRecord
<1>2. Typed'
  BY <1>1, BecomesOne DEF Typed
<1>3. JobInv'
  BY <1>1 DEF JobInv, Busy, Last
<1>4. Assigned' /\ \A g \in Handlers : Of(g)' = Of(g)
  BY AssignedStep
<1>5. EventInv'
  BY <1>1, <1>4 DEF EventInv, Told, Works
<1>6. ASSUME NEW g \in Handlers PROVE (Control(handler[g]) /\ Done(handler[g]))'
  <2>1. handler'[g] = IF g = h THEN r ELSE handler[g]
    BY BecomesOne
  <2>2. Control(handler'[g])
    BY <2>1 DEF HandlersInv
  <2>3. CASE g = h
    BY <2>1, <2>2, <2>3, <1>1 DEF Control, Done, DiskCalls, ConfigCalls, ConfigVerbs
  <2>4. CASE g # h
    BY <2>1, <2>2, <2>4, <1>1 DEF HandlersInv, Control, Done, DiskCalls, ConfigCalls, Past
  <2> QED
    BY <2>3, <2>4
<1> QED
  BY <1>2, <1>3, <1>4, <1>5, <1>6 DEF HandlersInv

LEMMA PutStep ==
    ASSUME IInv, NEW h \in Handlers, Put(h)
    PROVE  IInv'
<1>1. handler[h].pc = "put"
  BY DEF Put, At
<1>2. /\ Of(h).verb \in {"change", "rewire"} /\ Of(h).on \in Configs
      /\ handler[h] \in HandlerRecord /\ handler[h].result = "none"
      /\ linode \in LinodeRecord
  BY <1>1, ConfigTask DEF PlacesOf, ConfigVerbs, IInv, Typed
<1> DEFINE pending == IF Of(h).on = linode.booted /\ linode.power # "offline"
                      THEN linode.pending \union {Of(h).on} ELSE linode.pending
<1>3. /\ pending \in SUBSET Configs
      /\ linode' = [linode EXCEPT !.pending = pending, !.configs = linode.configs]
  BY <1>2 DEF Put, LinodeRecord
<1>4. UNCHANGED <<events, skip, wasOn, failures>>
  BY DEF Put, Settings
<1>5. CASE handler[h].off /\ ~Manages(h)
  <2> DEFINE r == Calling(handler[h], "boot", Of(h).on, "unlooked")
  <2>1. Becomes(h, r)
    BY <1>5 DEF Put, Do
  <2>2. r \in HandlerRecord
    BY <1>2 DEF Calling, HandlerRecord, CallRecord, Actions, Subjects, Returns, Places, CallSteps
  <2>3. /\ r.task = Of(h) /\ r.result = "none" /\ r.pc = "watch"
        /\ r.off = handler[h].off /\ r.noted = handler[h].noted
        /\ r.watch = handler[h].watch /\ Makes(r, "boot", Of(h).on, "unlooked")
    BY <1>2 DEF HandlerRecord, Calling, Makes, Of
  <2>4. Control(r)
    <3> HIDE DEF r
    <3> QED
      BY <1>2, <1>5, <2>3, HandlerFacts DEF Control, CallSteps, ConfigCalls, DiskVerbs, Of, Manages
  <2> QED
    <3> HIDE DEF r, pending
    <3> QED
      BY <1>2, <1>3, <1>4, <2>1, <2>2, <2>3, <2>4, WriteStep DEF ConfigVerbs
<1>6. CASE ~(handler[h].off /\ ~Manages(h))
  <2> DEFINE r == [handler[h] EXCEPT !.pc = "apply"]
  <2>1. Becomes(h, r)
    BY <1>6 DEF Put, Goto
  <2>2. r \in HandlerRecord /\ r.task = Of(h) /\ r.result = "none"
    BY <1>2 DEF HandlerRecord, Places, Of
  <2>3. Control(r)
    BY <1>2, <2>2, HandlerFacts DEF Control, HandlerRecord, CallSteps, PlacesOf, DiskVerbs, Of
  <2> QED
    <3> HIDE DEF r, pending
    <3> QED
      BY <1>2, <1>3, <1>4, <2>1, <2>2, <2>3, WriteStep DEF ConfigVerbs
<1> QED
  BY <1>5, <1>6

LEMMA DropConfigStep ==
    ASSUME IInv, NEW h \in Handlers, DropConfig(h)
    PROVE  IInv'
<1>1. handler[h].pc = "drop"
  BY DEF DropConfig, At
<1>2. /\ Of(h).verb = "remove"
      /\ handler[h] \in HandlerRecord /\ handler[h].result = "none"
      /\ linode \in LinodeRecord
  BY <1>1, ConfigTask DEF PlacesOf, ConfigVerbs, IInv, Typed
<1> DEFINE configs == linode.configs \ {Of(h).on}
           r == [handler[h] EXCEPT !.pc = "end", !.result = "ok"]
<1>3. linode' = [linode EXCEPT !.pending = linode.pending, !.configs = configs]
         /\ linode.pending \in SUBSET Configs
  BY <1>2 DEF DropConfig, LinodeRecord
<1>4. UNCHANGED <<events, skip, wasOn, failures>>
  BY DEF DropConfig, Settings
<1>5. Becomes(h, r)
  BY DEF DropConfig, End
<1>6. r \in HandlerRecord /\ r.task = Of(h)
  BY <1>2 DEF HandlerRecord, Places, Of
<1>7. Control(r)
  BY <1>2, <1>6, HandlerFacts DEF Control, HandlerRecord, CallSteps, PlacesOf, DiskVerbs, Of
<1>8. configs \in SUBSET linode.configs /\ Of(h).on \notin configs
  OBVIOUS
<1> QED
  <2> HIDE DEF r, configs
  <2> QED
    BY <1>2, <1>3, <1>4, <1>5, <1>6, <1>7, <1>8, WriteStep DEF ConfigVerbs

-----------------------------------------------------------------------------
(* The jobs. *)

\* What a request that is accepted is about.
LEMMA AcceptedCall ==
    ASSUME IInv, NEW h \in Handlers, At(h, "request"), ~Busy,
           Accepts(handler[h].call.action, handler[h].call.on)
    PROVE  /\ handler[h].call.action \in Actions
           /\ handler[h].call.action \in Boots =>
                  Target(handler[h].call.on) \in Configs /\ linode.power \in {"offline", "running"}
           /\ handler[h].call.action \in DiskActions =>
                  /\ handler[h].call.on \in Disks /\ linode.power = "offline"
                  /\ Works(h, handler[h].call.action, handler[h].call.on)
           /\ handler[h].call.on \in Subjects
<1>1. handler[h].pc \in CallSteps /\ handler[h] \in HandlerRecord
  BY HandlerFacts DEF At, CallSteps
<1>2. handler[h].call.action \in Actions /\ handler[h].call.on \in Subjects
  BY <1>1, CallFacts DEF HandlerRecord, CallRecord, DiskCalls, ConfigCalls, Makes, Actions
<1>3. ASSUME handler[h].call.action \in Boots
      PROVE  Target(handler[h].call.on) \in Configs /\ linode.power \in {"offline", "running"}
  BY <1>3 DEF Accepts, Boots, IInv, Typed, LinodeRecord
<1>4. ASSUME handler[h].call.action \in DiskActions
      PROVE  /\ handler[h].call.on \in Disks /\ linode.power = "offline"
             /\ Works(h, handler[h].call.action, handler[h].call.on)
  <2>1. /\ handler[h].task.verb = IF handler[h].call.action = "disk_resize" THEN "resize" ELSE "delete"
        /\ handler[h].call.on = handler[h].task.on
    BY <1>1, <1>4, CallFacts DEF DiskCalls, ConfigCalls, Makes, DiskActions
  <2>2. handler[h].task \in TaskRecord
    BY <1>1 DEF HandlerRecord
  <2>3. handler[h].task.on \in Disks
    BY <2>1, <2>2 DEF TaskRecord, ConfigVerbs
  <2> QED
    BY <1>4, <2>1, <2>3 DEF Accepts, DiskActions, Works, Of
<1> QED
  BY <1>2, <1>3, <1>4

\* What starting a job does.
LEMMA StartEffect ==
    ASSUME Typed, NEW action \in Actions, NEW on \in Subjects, StartJob(action, on),
           action \in Boots => Target(on) \in Configs
    PROVE  LET about == IF action \in Boots THEN Target(on) ELSE on
           IN  /\ linode' \in LinodeRecord /\ events' \in Seq(EventRecord)
               /\ linode'.job = Len(events) + 1 /\ Len(events') = Len(events) + 1
               /\ linode'.power = CASE action = "boot"     -> "booting"
                                    [] action = "reboot"   -> "rebooting"
                                    [] action = "shutdown" -> "shutting_down"
                                    [] OTHER               -> linode.power
               /\ linode'.disks = linode.disks /\ linode'.configs = linode.configs
               /\ events'[Len(events) + 1] = [action |-> action, status |-> "started", on |-> about]
               /\ \A i \in DOMAIN events : i \in DOMAIN events' /\ events'[i] = events[i]
               /\ \A i \in DOMAIN events' : i \in DOMAIN events \/ i = Len(events) + 1
<1> DEFINE about == IF action \in Boots THEN Target(on) ELSE on
           e == [action |-> action, status |-> "started", on |-> about]
           during == CASE action = "boot"     -> "booting"
                       [] action = "reboot"   -> "rebooting"
                       [] action = "shutdown" -> "shutting_down"
                       [] OTHER               -> linode.power
<1>1. events \in Seq(EventRecord) /\ Len(events) \in Nat /\ linode \in LinodeRecord
  BY DEF Typed
<1>2. about \in Subjects /\ e \in EventRecord
  BY DEF Subjects, EventRecord
<1>3. events' = Append(events, e)
  BY DEF StartJob, Boots
<1>4. /\ events' \in Seq(EventRecord) /\ Len(events') = Len(events) + 1
      /\ events'[Len(events) + 1] = e
      /\ \A i \in DOMAIN events : i \in DOMAIN events' /\ events'[i] = events[i]
      /\ \A i \in DOMAIN events' : i \in DOMAIN events \/ i = Len(events) + 1
  <2> HIDE DEF e
  <2> QED
    BY <1>1, <1>2, <1>3
<1>5. during \in Powers
  BY <1>1 DEF LinodeRecord, Powers
<1>6. \E booted \in Configs, pending \in SUBSET Configs :
         linode' = [linode EXCEPT !.job = Len(events) + 1, !.power = during,
                                  !.booted = booted, !.pending = pending]
  <2> DEFINE booted == IF action \in {"boot", "reboot"} THEN Target(on) ELSE linode.booted
             pending == IF action \in {"boot", "reboot"} THEN linode.pending \ {Target(on)}
                        ELSE linode.pending
  <2>1. booted \in Configs /\ pending \in SUBSET Configs
    BY <1>1 DEF LinodeRecord, Boots
  <2>2. linode' = [linode EXCEPT !.job = Len(events) + 1, !.power = during,
                                 !.booted = booted, !.pending = pending]
    BY DEF StartJob, Started
  <2> HIDE DEF booted, pending
  <2> QED
    BY <2>1, <2>2
<1>7. /\ linode' \in LinodeRecord /\ linode'.job = Len(events) + 1
      /\ linode'.power = during /\ linode'.disks = linode.disks
      /\ linode'.configs = linode.configs
  <2> HIDE DEF during
  <2>1. PICK booted \in Configs, pending \in SUBSET Configs :
           linode' = [linode EXCEPT !.job = Len(events) + 1, !.power = during,
                                    !.booted = booted, !.pending = pending]
    BY <1>6
  <2>2. Len(events) + 1 \in Nat
    BY <1>1
  <2> QED
    BY <1>1, <1>5, <2>1, <2>2 DEF LinodeRecord
<1> QED
  BY <1>4, <1>7

LEMMA RequestStep ==
    ASSUME IInv, NEW h \in Handlers, Request(h)
    PROVE  IInv'
<1> DEFINE call == handler[h].call
<1>1. handler[h].pc = "request" /\ handler[h].pc \in CallSteps /\ At(h, "request") /\ ~Busy
  BY DEF Request, At, CallSteps
<1>2. CASE ~Accepts(call.action, call.on)
  <2>1. FailCall(h) /\ UNCHANGED <<linode, events, skip, wasOn>> /\ failures' \in 0 .. MaxFailures
    BY <1>2 DEF Request, API, Settings, IInv, Typed
  <2> QED
    BY <1>1, <2>1, FailCallStep
<1>3. CASE Accepts(call.action, call.on)
  <2> DEFINE r == [handler[h] EXCEPT !.pc = "await"]
             n == Len(events) + 1
             about == IF call.action \in Boots THEN Target(call.on) ELSE call.on
  <2>1. StartJob(call.action, call.on) /\ Becomes(h, r) /\ UNCHANGED <<skip, wasOn, failures>>
    BY <1>3 DEF Request, Goto, Settings
  <2>2. handler[h] \in HandlerRecord /\ handler[h].result = "none"
    BY <1>1, HandlerFacts DEF Control, CallSteps
  <2>3. r \in HandlerRecord /\ r.task = Of(h) /\ r.pc = "await" /\ r.call = call
    BY <2>2 DEF HandlerRecord, Places, CallSteps, Of
  <2>4. /\ call.action \in Actions /\ call.on \in Subjects
        /\ call.action \in Boots => Target(call.on) \in Configs
        /\ call.action \in DiskActions =>
              call.on \in Disks /\ linode.power = "offline" /\ Works(h, call.action, call.on)
    BY <1>1, <1>3, AcceptedCall
  <2>5. /\ linode' \in LinodeRecord /\ events' \in Seq(EventRecord)
        /\ linode'.job = n /\ Len(events') = n
        /\ linode'.power = CASE call.action = "boot"     -> "booting"
                             [] call.action = "reboot"   -> "rebooting"
                             [] call.action = "shutdown" -> "shutting_down"
                             [] OTHER                    -> linode.power
        /\ linode'.disks = linode.disks /\ linode'.configs = linode.configs
        /\ events'[n] = [action |-> call.action, status |-> "started", on |-> about]
        /\ \A i \in DOMAIN events : i \in DOMAIN events' /\ events'[i] = events[i]
        /\ \A i \in DOMAIN events' : i \in DOMAIN events \/ i = n
    <3> HIDE DEF call
    <3> QED
      BY <2>1, <2>4, StartEffect DEF IInv
  <2>6. Len(events) \in Nat
    BY DEF IInv, Typed
  <2>7. Typed'
    BY <2>1, <2>3, <2>5, BecomesOne DEF IInv, Typed
  <2>8. JobInv'
    <3>1. Busy' /\ linode'.job = Len(events') /\ Last' = events'[n] /\ n # 0
      BY <2>5, <2>6 DEF Busy, Last
    <3>2. /\ Last'.status = "started" /\ Last'.action = call.action
      BY <2>5, <3>1
    <3>3. call.action \in Boots \union {"shutdown"} \union DiskActions
      BY <2>4 DEF Actions, Boots, DiskActions
    <3> HIDE DEF n, about, r, call
    <3> QED
      BY <2>4, <2>5, <3>1, <3>2, <3>3 DEF JobInv, DiskActions, Boots
  <2>9. Assigned' /\ \A g \in Handlers : Of(g)' = Of(g)
    BY <2>1, <2>3, AssignedStep DEF IInv
  <2>10. EventInv'
    <3>1. \A g \in Handlers : \A a, d : Works(g, a, d)' <=> Works(g, a, d)
      BY <2>9 DEF Works
    <3>2. \A d \in Disks : linode'.disks[d] = "gone" => \E g \in Handlers : Works(g, "disk_delete", d)'
      BY <2>5, <3>1 DEF IInv, EventInv
    <3>3. ASSUME NEW i \in DOMAIN events' PROVE Told(events[i])'
      <4>1. CASE i \in DOMAIN events
        <5>1. Told(events[i]) /\ events'[i] = events[i]
          BY <2>5, <4>1 DEF IInv, EventInv
        <5> QED
          BY <2>5, <3>1, <5>1 DEF Told
      <4>2. CASE i = n
        <5>1. events'[i].action = call.action /\ events'[i].status = "started" /\ events'[i].on = about
          BY <2>5, <4>2
        <5>2. call.action \in DiskActions => call.action \notin Boots
          BY DEF DiskActions, Boots
        <5> QED
          BY <2>4, <3>1, <5>1, <5>2 DEF Told
      <4> QED
        BY <2>5, <4>1, <4>2
    <3> QED
      BY <3>2, <3>3 DEF EventInv
  <2>11. ASSUME NEW g \in Handlers PROVE (Control(handler[g]) /\ Done(handler[g]))'
    <3>1. handler'[g] = IF g = h THEN r ELSE handler[g]
      BY <2>1, <2>3, BecomesOne DEF IInv
    <3>2. \A q \in HandlerRecord : Control(q) => Control(q)'
      BY <2>5, <2>6 DEF Control, DiskCalls, ConfigCalls, HandlerRecord
    <3>3. \A q \in HandlerRecord : Done(q) => Done(q)'
      BY <2>5 DEF Done
    <3>4. Control(r)
      BY <1>1, <2>2, <2>3, HandlerFacts DEF Control, CallSteps, DiskCalls, ConfigCalls, Makes, HandlerRecord
    <3>5. Done(r)
      BY <1>1, <2>2, <2>3, HandlerFacts DEF Done, Past, CallSteps, HandlerRecord
    <3>6. (Control(handler[g]) /\ Done(handler[g]))
      BY HandlerFacts
    <3> HIDE DEF r
    <3> QED
      BY <3>1, <3>2, <3>3, <3>4, <3>5, <3>6, <2>3, HandlerFacts DEF Control, Done, DiskCalls, ConfigCalls
  <2> QED
    BY <2>7, <2>8, <2>9, <2>10, <2>11 DEF IInv, HandlersInv
<1> QED
  BY <1>2, <1>3

\* Only one task works on a disk.
LEMMA OneWorks ==
    ASSUME IInv, NEW g \in Handlers, NEW h \in Handlers, NEW action, NEW d \in Disks,
           Works(g, action, d), Of(h).on = d
    PROVE  g = h
<1>1. PICK task \in Assignments : \A k \in Handlers : Of(k) = task[k]
  BY DEF IInv, Assigned
<1>2. task[g].on = d /\ task[h].on = d /\ d # Nothing
  BY <1>1, PowerAssumption DEF Works
<1> QED
  BY <1>2, PowerAssumption

LEMMA EndJobStep ==
    ASSUME IInv, EndJob
    PROVE  IInv'
<1> DEFINE n == linode.job
           job == events[n]
<1>1. Typed /\ linode \in LinodeRecord /\ events \in Seq(EventRecord) /\ Len(events) \in Nat
  BY DEF IInv, Typed
<1>2. /\ Busy /\ n = Len(events) /\ n \in DOMAIN events /\ job = Last /\ job.status = "started"
      /\ job \in EventRecord
  BY <1>1 DEF EndJob, IInv, JobInv, Busy, LinodeRecord, Last
<1>3. /\ linode.power = CASE job.action = "boot"     -> "booting"
                          [] job.action = "reboot"   -> "rebooting"
                          [] job.action = "shutdown" -> "shutting_down"
                          [] OTHER                   -> "offline"
      /\ job.action \in Actions
  BY <1>2 DEF IInv, JobInv, EventRecord
<1>4. /\ job.action \in Boots => job.on \in Configs
      /\ job.action \in DiskActions =>
            job.on \in Disks /\ \E h \in Handlers : Works(h, job.action, job.on)
  BY <1>2 DEF IInv, EventInv, Told
<1>5. PICK status \in {"finished", "failed"} : events' = [events EXCEPT ![n].status = status]
  BY DEF EndJob
<1>6. UNCHANGED <<handler, skip, wasOn>> /\ failures' \in 0 .. MaxFailures
  BY PowerAssumption, <1>1 DEF EndJob, Typed
<1>7. /\ events' \in Seq(EventRecord) /\ Len(events') = Len(events) /\ DOMAIN events' = DOMAIN events
      /\ \A i \in DOMAIN events : events'[i] = IF i = n THEN [job EXCEPT !.status = status] ELSE events[i]
  <2>1. [job EXCEPT !.status = status] \in EventRecord
    BY <1>2 DEF EventRecord
  <2> QED
    BY <1>1, <1>2, <1>5, <2>1
<1>8. \A i \in DOMAIN events : /\ events'[i].action = events[i].action /\ events'[i].on = events[i].on
                               /\ i # n => events'[i] = events[i]
  BY <1>2, <1>7 DEF EventRecord
<1>9. /\ linode' \in LinodeRecord /\ linode'.job = 0 /\ linode'.configs = linode.configs
      /\ linode'.power \in {"running", "offline"}
      /\ \/ linode'.disks = linode.disks /\ (job.action \in DiskActions => events'[n].status = "failed")
         \/ /\ job.action = "disk_resize"
            /\ linode'.disks = [linode.disks EXCEPT ![job.on] = "new"]
         \/ /\ job.action = "disk_delete"
            /\ linode'.disks = [linode.disks EXCEPT ![job.on] = "gone"]
  <2> DEFINE disks == CASE job.action = "disk_resize" -> [linode.disks EXCEPT ![job.on] = "new"]
                        [] job.action = "disk_delete" -> [linode.disks EXCEPT ![job.on] = "gone"]
                        [] OTHER                      -> linode.disks
             up == CASE linode.power \in {"booting", "rebooting"} -> "running"
                     [] linode.power = "shutting_down"            -> "offline"
                     [] OTHER                                     -> linode.power
             down == CASE linode.power \in {"booting", "rebooting"} -> "offline"
                       [] linode.power = "shutting_down"            -> "running"
                       [] OTHER                                     -> linode.power
  <2>1. up \in {"running", "offline"} /\ down \in {"running", "offline"}
    BY <1>3
  <2>2. disks \in [Disks -> {"old", "new", "gone"}]
    BY <1>1, <1>4 DEF LinodeRecord, DiskActions
  <2>3. \/ linode' = [linode EXCEPT !.job = 0, !.power = up, !.disks = disks]
        \/ /\ linode' = [linode EXCEPT !.job = 0, !.power = down]
           /\ events' = [events EXCEPT ![n].status = "failed"]
    BY DEF EndJob
  <2>4. CASE linode' = [linode EXCEPT !.job = 0, !.power = up, !.disks = disks]
    <3>1. linode' \in LinodeRecord /\ linode'.job = 0 /\ linode'.configs = linode.configs
             /\ linode'.power = up /\ linode'.disks = disks
      <4> HIDE DEF up, disks
      <4> QED
        BY <1>1, <2>1, <2>2, <2>4 DEF LinodeRecord, Powers
    <3>2. job.action = "disk_resize" => disks = [linode.disks EXCEPT ![job.on] = "new"]
      OBVIOUS
    <3>3. job.action = "disk_delete" => disks = [linode.disks EXCEPT ![job.on] = "gone"]
      OBVIOUS
    <3>4. job.action \notin DiskActions => disks = linode.disks
      BY DEF DiskActions
    <3> HIDE DEF up, disks
    <3> QED
      BY <2>1, <3>1, <3>2, <3>3, <3>4 DEF DiskActions
  <2>5. CASE /\ linode' = [linode EXCEPT !.job = 0, !.power = down]
             /\ events' = [events EXCEPT ![n].status = "failed"]
    <3>1. linode' \in LinodeRecord /\ linode'.job = 0 /\ linode'.configs = linode.configs
             /\ linode'.power = down /\ linode'.disks = linode.disks
      <4> HIDE DEF down
      <4> QED
        BY <1>1, <2>1, <2>5 DEF LinodeRecord, Powers
    <3>2. events'[n].status = "failed"
      BY <1>1, <1>2, <2>5 DEF EventRecord
    <3> HIDE DEF down
    <3> QED
      BY <2>1, <3>1, <3>2
  <2> QED
    BY <2>3, <2>4, <2>5
<1> HIDE DEF n, job
<1>10. Typed'
  BY <1>1, <1>6, <1>7, <1>9 DEF Typed
<1>11. JobInv'
  BY <1>9 DEF JobInv, Busy
<1>12. Assigned' /\ \A h \in Handlers : Of(h)' = Of(h)
  BY <1>6 DEF IInv, Assigned, Of
<1>13. \A g \in Handlers : \A a, d : Works(g, a, d)' <=> Works(g, a, d)
  BY <1>12 DEF Works
\* The disk that the job was about is the task of nobody else.
<1>14. ASSUME NEW h \in Handlers, Of(h).on \in Disks, linode'.disks[Of(h).on] # linode.disks[Of(h).on]
       PROVE  /\ Of(h).verb = "resize" => linode'.disks[Of(h).on] = "new"
              /\ Of(h).verb = "delete" => linode'.disks[Of(h).on] = "gone"
  <2>1. job.action \in DiskActions /\ job.on \in Disks /\ job.on = Of(h).on
    BY <1>1, <1>4, <1>9, <1>14 DEF DiskActions, LinodeRecord
  <2>2. PICK g \in Handlers : Works(g, job.action, job.on)
    BY <1>4, <2>1
  <2>3. Of(h).verb = IF job.action = "disk_resize" THEN "resize" ELSE "delete"
    BY <2>1, <2>2, OneWorks DEF Works
  <2>4. linode'.disks[job.on] = IF job.action = "disk_resize" THEN "new" ELSE "gone"
    BY <1>1, <1>9, <1>14, <2>1 DEF LinodeRecord
  <2> QED
    BY <2>1, <2>3, <2>4 DEF DiskActions
<1>15. EventInv'
  <2>1. ASSUME NEW d \in Disks, linode'.disks[d] = "gone"
        PROVE  \E h \in Handlers : Works(h, "disk_delete", d)'
    <3>1. CASE linode.disks[d] = "gone"
      BY <1>13, <3>1 DEF IInv, EventInv
    <3>2. CASE linode.disks[d] # "gone"
      <4>1. job.action = "disk_delete" /\ job.on = d
        BY <1>1, <1>9, <2>1, <3>2 DEF LinodeRecord
      <4> QED
        BY <1>4, <1>13, <4>1 DEF DiskActions
    <3> QED
      BY <3>1, <3>2
  <2>2. ASSUME NEW i \in DOMAIN events' PROVE Told(events[i])'
    <3>1. /\ i \in DOMAIN events /\ events'[i].action = events[i].action /\ events'[i].on = events[i].on
          /\ i # n => events'[i] = events[i]
      BY <1>7, <1>8
    <3>2. Told(events[i])
      BY <3>1 DEF IInv, EventInv
    <3>3. ASSUME events[i].action \in DiskActions, events'[i].status = "finished"
          PROVE  linode'.disks[events[i].on] = IF events[i].action = "disk_resize" THEN "new" ELSE "gone"
      <4>1. CASE i = n
        BY <1>1, <1>9, <3>2, <3>3, <4>1 DEF job, LinodeRecord, DiskActions, Told
      <4>2. CASE i # n
        <5>1. PICK h \in Handlers : Works(h, events[i].action, events[i].on)
          BY <3>2, <3>3 DEF Told
        <5>2. linode.disks[events[i].on] = IF events[i].action = "disk_resize" THEN "new" ELSE "gone"
          BY <3>1, <3>2, <3>3, <4>2 DEF Told
        <5>3. Of(h).on = events[i].on /\ events[i].on \in Disks
                 /\ Of(h).verb = IF events[i].action = "disk_resize" THEN "resize" ELSE "delete"
          BY <3>2, <3>3, <5>1 DEF Works, Told
        <5> QED
          BY <1>14, <3>3, <5>2, <5>3 DEF DiskActions
      <4> QED
        BY <4>1, <4>2
    <3> QED
      BY <1>13, <3>1, <3>2, <3>3 DEF Told
  <2> QED
    BY <2>1, <2>2 DEF EventInv
<1>16. ASSUME NEW h \in Handlers PROVE (Control(handler[h]) /\ Done(handler[h]))'
  <2>1. handler[h] \in HandlerRecord /\ Control(handler[h]) /\ Done(handler[h])
    BY HandlerFacts
  <2>2. Control(handler[h])'
    BY <1>6, <1>7, <2>1 DEF Control, DiskCalls, ConfigCalls
  <2>3. Of(h).verb \in DiskVerbs => Of(h).on \in Disks
    BY <2>1 DEF HandlerRecord, TaskRecord, DiskVerbs, ConfigVerbs, Of
  <2>4. Done(handler[h])'
    BY <1>6, <1>9, <1>14, <2>1, <2>3 DEF Done, Of, DiskVerbs, Past
  <2> QED
    BY <2>2, <2>4
<1> QED
  BY <1>10, <1>11, <1>12, <1>15, <1>16 DEF IInv, HandlersInv

-----------------------------------------------------------------------------
(* The invariant, and what follows from it. *)

LEMMA InitIInv == Init => IInv
<1> SUFFICES ASSUME Init PROVE IInv
  OBVIOUS
<1>1. PICK power \in {"running", "offline"}, c \in Configs : Begins(power, c)
  BY DEF Init
<1>2. PICK task \in Assignments : handler = [h \in Handlers |-> Fresh(task[h])]
  BY DEF Init
<1>3. task \in [Handlers -> TaskRecord] /\ MaxFailures \in Nat
  BY PowerAssumption
<1>4. /\ linode \in LinodeRecord /\ linode.job = 0 /\ linode.power = power
      /\ \A d \in Disks : linode.disks[d] = "old"
  BY <1>1 DEF Begins, LinodeRecord, Powers
<1>5. /\ events \in Seq(EventRecord) /\ Len(events) \in Nat
      /\ \A i \in DOMAIN events : events[i].action = "boot" /\ events[i].on \in Configs
  <2> DEFINE e == [action |-> "boot", on |-> c, status |-> "finished"]
  <2>1. e \in EventRecord /\ e.action = "boot" /\ e.on \in Configs
    BY DEF EventRecord, Actions, Subjects
  <2>2. events = <<>> \/ events = <<e>>
    BY <1>1 DEF Begins
  <2> HIDE DEF e
  <2>3. CASE events = <<>>
    BY <2>3
  <2>4. CASE events = <<e>>
    <3>1. Len(events) = 1 /\ DOMAIN events = {1} /\ events[1] = e /\ events \in Seq(EventRecord)
      BY <2>1, <2>4
    <3> QED
      BY <2>1, <3>1
  <2> QED
    BY <2>2, <2>3, <2>4
<1>6. \A t \in TaskRecord : Fresh(t) \in HandlerRecord
  BY DEF Fresh, HandlerRecord, Places, Powers, CallRecord, Subjects, Idle, Returns
<1>7. Typed
  BY <1>2, <1>3, <1>4, <1>5, <1>6 DEF Typed, Init
<1>8. JobInv
  BY <1>4 DEF JobInv, Busy
<1>9. EventInv
  BY <1>4, <1>5 DEF EventInv, Told, Boots, DiskActions
<1>10. Assigned
  BY <1>2, <1>3 DEF Assigned, Of, Fresh
<1>11. ASSUME NEW h \in Handlers PROVE Control(handler[h]) /\ Done(handler[h])
  <2>1. handler[h] = Fresh(task[h]) /\ task[h] \in TaskRecord
    BY <1>2, <1>3
  <2>2. Control(Fresh(task[h])) /\ Done(Fresh(task[h]))
    BY <1>5, <2>1
       DEF Fresh, Control, Done, Past, CallSteps, PlacesOf, TaskRecord, DiskVerbs, ConfigVerbs
  <2> QED
    BY <2>1, <2>2
<1> QED
  BY <1>7, <1>8, <1>9, <1>10, <1>11 DEF IInv, HandlersInv

LEMMA StutterIInv ==
    ASSUME IInv, UNCHANGED vars
    PROVE  IInv'
<1>1. /\ linode' = linode /\ events' = events /\ handler' = handler
      /\ skip' = skip /\ wasOn' = wasOn /\ failures' = failures
  BY DEF vars
<1> QED
  BY <1>1 DEF IInv, Typed, JobInv, Busy, Last, EventInv, Told, Works, Of, Assigned,
              HandlersInv, Control, Done, DiskCalls, ConfigCalls

LEMMA NextIInv == IInv /\ [Next]_vars => IInv'
<1> SUFFICES ASSUME IInv, [Next]_vars PROVE IInv'
  OBVIOUS
<1>1. CASE EndJob
  BY <1>1, EndJobStep
<1>2. ASSUME NEW h \in Handlers, Step(h) PROVE IInv'
  BY <1>2, WatchStep, RequestStep, AwaitStep, SettleStep, StartDiskStep, OperateStep,
     CheckSizeStep, ListDisksStep, StartConfigStep, InspectStep, SafeShutdownStep, PutStep,
     ApplyStep, DecideStep, RunningStep, RemovalStep, DropConfigStep, StartRebootStep,
     RebootedStep, TimesOutStep
  DEF Step
<1>3. ASSUME NEW h \in Handlers, CallFails(h) PROVE IInv'
  BY <1>3, CallFailsStep
<1>4. CASE UNCHANGED vars
  BY <1>4, StutterIInv
<1> QED
  BY <1>1, <1>2, <1>3, <1>4 DEF Next

\* Whatever the handlers are, however their requests interleave and whatever
\* fails, the inductive invariant holds throughout: events are owned by the
\* handler that asked for them, and every handler that waits has seen its job.
THEOREM Invariance == Spec => []IInv
<1> QED
  BY InitIInv, NextIInv, PTL DEF Spec

\* The fields of the Linode and of the handlers have their types; a job is an
\* event there is, and a poller knows no event that there is not.
THEOREM TypeCorrect == Spec => []TypeOK
<1>1. IInv => TypeOK
  <2> SUFFICES ASSUME IInv PROVE TypeOK
    OBVIOUS
  <2>1. Typed /\ linode \in LinodeRecord /\ Len(events) \in Nat
    BY DEF IInv, Typed
  <2>2. linode.job \in 0 .. Len(events)
    BY <2>1 DEF IInv, JobInv, Busy, LinodeRecord
  <2>3. linode \in [power : Powers, job : 0 .. Len(events), booted : Configs, pending : SUBSET Configs,
                    disks : [Disks -> {"old", "new", "gone"}], configs : SUBSET Configs]
    BY <2>1, <2>2 DEF LinodeRecord
  <2>4. \A i \in DOMAIN events : events[i] \in EventRecord
    BY <2>1 DEF Typed
  <2>5. ASSUME NEW h \in Handlers
        PROVE  /\ Of(h) \in TaskRecord
               /\ handler[h].status \in Powers \union {Nothing}
               /\ handler[h].current \in Configs \union {Nothing}
               /\ handler[h].watch \in 0 .. Len(events)
               /\ handler[h].result \in {"none", "ok", "error"}
    BY <2>1, HandlerFacts DEF HandlerRecord, Control, Of
  <2> QED
    BY <2>1, <2>3, <2>4, <2>5 DEF TypeOK, Typed, EventRecord
<1> QED
  BY <1>1, Invariance, PTL

\* A handler that reports success has had its effect, however many others worked
\* on the Linode and whatever failed: the event it waited for is that of its own
\* operation, and an error that is noted on the way is not forgotten.
THEOREM SuccessIsDone == Spec => []SuccessMeansDone
<1>1. IInv => SuccessMeansDone
  BY HandlerFacts DEF SuccessMeansDone, Done, Of
<1> QED
  BY <1>1, Invariance, PTL

-----------------------------------------------------------------------------
(* Without failures: the Linode is not left without somebody who boots it. *)

\* A step of one handler that leaves the Linode alone keeps it so if the handler
\* waits on for the job it waited for, and owes the boot it owed.
LEMMA CalmQuiet ==
    ASSUME IInv, CalmInv, NEW h \in Handlers, NEW r, Becomes(h, r), r.task = Of(h),
           UNCHANGED <<linode, events, wasOn>>, Calm' => Calm,
           Calm /\ Busy /\ Awaits(handler[h], Last) => Awaits(r, Last),
           Calm /\ Benign /\ wasOn /\ Left # {} /\ Owes(handler[h]) => Owes(r) \/ On
    PROVE  CalmInv'
<1>1. handler'[h] = r /\ \A g \in Handlers : g # h => handler'[g] = handler[g]
  BY DEF IInv, Typed, Becomes
<1>2. Benign' = Benign
  BY <1>1 DEF Benign, Of
<1>3. Busy' = Busy /\ Left' = Left /\ On' = On /\ Last' = Last
  BY DEF Busy, Left, On, Last
<1>4. SUFFICES ASSUME Calm'
      PROVE  /\ \A i \in DOMAIN events' : events'[i].status # "failed"
             /\ Busy => \E g \in Handlers : Awaits(handler[g], Last)'
             /\ Benign => linode'.configs = Configs
             /\ Benign /\ wasOn' /\ Left # {} => On \/ \E g \in Handlers : Owes(handler'[g])
  BY <1>2, <1>3 DEF CalmInv, Owes
<1>5. Busy => \E g \in Handlers : Awaits(handler[g], Last)'
  <2> SUFFICES ASSUME Busy PROVE \E g \in Handlers : Awaits(handler[g], Last)'
    OBVIOUS
  <2>1. PICK g \in Handlers : Awaits(handler[g], Last)
    BY <1>4 DEF CalmInv
  <2>2. Awaits(handler'[g], Last)
    BY <1>1, <1>4, <2>1
  <2> QED
    BY <1>3, <2>2 DEF Awaits
<1>6. Benign /\ wasOn /\ Left # {} => On \/ \E g \in Handlers : Owes(handler'[g])
  BY <1>1, <1>4 DEF CalmInv
<1> QED
  BY <1>4, <1>5, <1>6 DEF CalmInv

LEMMA CalmBack ==
    ASSUME IInv, failures' = failures
    PROVE  Calm' => Calm
  BY DEF Calm

\* At the places where nothing is owed.
LEMMA CalmAtRest ==
    ASSUME IInv, CalmInv, NEW h \in Handlers, NEW r, Becomes(h, r), r.task = Of(h), Quietly,
           handler[h].pc \notin CallSteps \union {"operate", "check", "list", "put", "apply", "decide"}
    PROVE  CalmInv'
<1>1. ~Owes(handler[h]) /\ ~Awaits(handler[h], Last)
  BY DEF Owes, Awaits, CallSteps
<1> QED
  BY <1>1, CalmQuiet, CalmBack DEF Quietly

LEMMA GoesOn ==
    ASSUME IInv, NEW h \in Handlers
    PROVE  /\ \A pc : Goto(h, pc) => \E r : Becomes(h, r) /\ r.task = Of(h)
           /\ \A result : End(h, result) => \E r : Becomes(h, r) /\ r.task = Of(h)
           /\ \A action, on, next : Do(h, action, on, next) => \E r : Becomes(h, r) /\ r.task = Of(h)
           /\ \A status : WithStatus(h, status) => \E r : Becomes(h, r) /\ r.task = Of(h)
           /\ FindStatus(h) => \E r : Becomes(h, r) /\ r.task = Of(h)
<1> DEFINE Same(r) == r.task = Of(h)
           Some == \E r : Becomes(h, r) /\ Same(r)
<1>0. handler[h] \in HandlerRecord
  BY HandlerFacts
<1>1. ASSUME NEW pc, Goto(h, pc) PROVE Some
  <2>1. Same([handler[h] EXCEPT !.pc = pc])
    BY <1>0 DEF HandlerRecord, Of
  <2> HIDE DEF Same
  <2> QED
    BY <1>1, <2>1 DEF Goto
<1>2. ASSUME NEW result, End(h, result) PROVE Some
  <2>1. Same([handler[h] EXCEPT !.pc = "end", !.result = result])
    BY <1>0 DEF HandlerRecord, Of
  <2> HIDE DEF Same
  <2> QED
    BY <1>2, <2>1 DEF End
<1>3. ASSUME NEW action, NEW on, NEW next, Do(h, action, on, next) PROVE Some
  <2>1. Same(Calling(handler[h], action, on, next))
    BY <1>0 DEF HandlerRecord, Of, Calling
  <2> HIDE DEF Same
  <2> QED
    BY <1>3, <2>1 DEF Do
<1>4. ASSUME NEW status, WithStatus(h, status) PROVE Some
  <2> DEFINE q == [handler[h] EXCEPT !.status = status]
             work == IF Of(h).verb \in DiskVerbs THEN "operate" ELSE "put"
  <2>1. Same([q EXCEPT !.pc = work]) /\ Same(Calling(q, "shutdown", Nothing, work))
    BY <1>0 DEF HandlerRecord, Of, Calling
  <2>2. \/ Becomes(h, [q EXCEPT !.pc = work])
        \/ Becomes(h, Calling(q, "shutdown", Nothing, work))
        \/ Fail(h)
    BY <1>4 DEF WithStatus
  <2> HIDE DEF Same, q, work
  <2> QED
    BY <1>2, <2>1, <2>2 DEF Fail
<1>5. ASSUME FindStatus(h) PROVE Some
  <2>1. Same([handler[h] EXCEPT !.pc = "settle", !.status = Steady(linode.power)])
    BY <1>0 DEF HandlerRecord, Of
  <2> HIDE DEF Same
  <2> QED
    BY <1>4, <1>5, <2>1 DEF FindStatus
<1> QED
  BY <1>1, <1>2, <1>3, <1>4, <1>5

LEMMA CalmRestSteps ==
    ASSUME IInv, CalmInv, NEW h \in Handlers,
           \/ Settle(h) \/ StartDisk(h) \/ StartConfig(h) \/ Inspect(h) \/ SafeShutdown(h)
           \/ Running(h) \/ Removal(h) \/ StartReboot(h) \/ Rebooted(h) \/ TimesOut(h)
    PROVE  CalmInv'
<1>1. Quietly /\ handler[h].pc \notin CallSteps \union {"operate", "check", "list", "put", "apply", "decide"}
  BY DEF Settle, StartDisk, StartConfig, Inspect, SafeShutdown, Running, Removal, StartReboot, Rebooted,
         TimesOut, FindStatus, At, Stalled, CallSteps
<1>2. \E r : Becomes(h, r) /\ r.task = Of(h)
  <2>1. CASE Settle(h) \/ StartDisk(h) \/ SafeShutdown(h)
    BY <2>1, GoesOn DEF Settle, StartDisk, SafeShutdown
  <2>2. CASE StartConfig(h)
    <3>1. ASSUME NEW pc, NEW status, Becomes(h, [handler[h] EXCEPT !.pc = pc, !.status = status])
          PROVE  \E r : Becomes(h, r) /\ r.task = Of(h)
      <4>1. [handler[h] EXCEPT !.pc = pc, !.status = status].task = Of(h)
        BY HandlerFacts DEF HandlerRecord, Of
      <4> QED
        BY <3>1, <4>1
    <3>2. CASE Goto(h, "apply")
      BY <3>2, GoesOn
    <3> QED
      BY <2>2, <3>1, <3>2 DEF StartConfig
  <2>3. CASE Inspect(h)
    <3>1. ASSUME NEW off, NEW reboot, NEW pc,
                 Becomes(h, [[handler[h] EXCEPT !.off = off, !.reboot = reboot] EXCEPT !.pc = pc])
          PROVE  \E r : Becomes(h, r) /\ r.task = Of(h)
      <4>1. [[handler[h] EXCEPT !.off = off, !.reboot = reboot] EXCEPT !.pc = pc].task = Of(h)
        BY HandlerFacts DEF HandlerRecord, Of
      <4> QED
        BY <3>1, <4>1
    <3>2. CASE Fail(h)
      BY <3>2, GoesOn DEF Fail
    <3> QED
      BY <2>3, <3>1, <3>2 DEF Inspect
  <2>4. CASE Running(h) \/ Removal(h) \/ StartReboot(h) \/ Rebooted(h) \/ TimesOut(h)
    BY <2>4, GoesOn DEF Running, Removal, StartReboot, Rebooted, TimesOut, Fail
  <2> QED
    BY <2>1, <2>2, <2>3, <2>4
<1> QED
  BY <1>1, <1>2, CalmAtRest

\* The steps of a handler that owes a boot, or waits.
LEMMA CalmWatch ==
    ASSUME IInv, CalmInv, NEW h \in Handlers, Watch(h)
    PROVE  CalmInv'
<1> DEFINE r == [handler[h] EXCEPT !.pc = "request", !.watch = Len(events)]
<1>1. Becomes(h, r) /\ handler[h].pc = "watch" /\ Quietly
  BY DEF Watch, At
<1>2. /\ r.pc = "request" /\ r.task = Of(h) /\ r.call = handler[h].call
      /\ r.status = handler[h].status /\ r.off = handler[h].off
  BY HandlerFacts DEF HandlerRecord, Of
<1>3. ~Awaits(handler[h], Last) /\ (Owes(handler[h]) => Owes(r))
  BY <1>1, <1>2 DEF Awaits, Owes, CallSteps, Of
<1> QED
  BY <1>1, <1>2, <1>3, CalmQuiet, CalmBack DEF Quietly

LEMMA CalmDiskSteps ==
    ASSUME IInv, CalmInv, NEW h \in Handlers, Operate(h) \/ CheckSize(h) \/ ListDisks(h)
    PROVE  CalmInv'
<1>1. Quietly /\ handler[h].pc \in {"operate", "check", "list"} /\ ~Awaits(handler[h], Last)
  BY DEF Operate, CheckSize, ListDisks, At, Awaits
<1>2. handler[h] \in HandlerRecord
  BY HandlerFacts
<1>3. CASE Operate(h)
  <2>1. PICK action \in DiskActions : \E next : Do(h, action, Of(h).on, next)
    BY <1>3 DEF Operate, DiskActions
  <2>0. PICK next : Do(h, action, Of(h).on, next)
    BY <2>1
  <2> DEFINE r == Calling(handler[h], action, Of(h).on, next)
  <2>2. /\ Becomes(h, r) /\ r.task = Of(h) /\ r.pc = "watch" /\ r.call.action = action
        /\ r.status = handler[h].status
    BY <1>2, <2>0 DEF Do, Calling, HandlerRecord, Of
  <2>3. handler[h].pc = "operate" /\ Of(h).verb \in DiskVerbs
    BY <1>3, HandlerFacts
       DEF Operate, At, Control, HandlerRecord, TaskRecord, PlacesOf, CallSteps, DiskVerbs, ConfigVerbs, Of
  <2>4. Owes(handler[h]) => Owes(r)
    <3> HIDE DEF r
    <3> QED
      BY <2>2, <2>3 DEF Owes, CallSteps, DiskActions, Of
  <2> QED
    <3> HIDE DEF r
    <3> QED
      BY <1>1, <2>2, <2>4, CalmQuiet, CalmBack DEF Quietly
<1>4. CASE CheckSize(h)
  <2> DEFINE r == [handler[h] EXCEPT !.pc = "list"]
  <2>1. handler[h].pc = "check" /\ Of(h).verb = "resize"
    BY <1>4, HandlerFacts
       DEF CheckSize, At, Control, HandlerRecord, TaskRecord, PlacesOf, CallSteps, DiskVerbs, ConfigVerbs, Of
  <2>2. linode.disks[Of(h).on] = "new"
    BY <2>1, HandlerFacts DEF Done, Past, Of
  <2>3. /\ Becomes(h, r) /\ r.task = Of(h) /\ r.pc = "list" /\ r.status = handler[h].status
    BY <1>2, <1>4, <2>2 DEF CheckSize, Goto, HandlerRecord, Of
  <2>4. Owes(handler[h]) => Owes(r)
    <3> HIDE DEF r
    <3> QED
      BY <2>1, <2>3 DEF Owes, DiskVerbs, Of
  <2> QED
    <3> HIDE DEF r
    <3> QED
      BY <1>1, <2>3, <2>4, CalmQuiet, CalmBack DEF Quietly
<1>5. CASE ListDisks(h)
  <2>1. handler[h].pc = "list" /\ Of(h).verb \in DiskVerbs
    BY <1>5, HandlerFacts
       DEF ListDisks, At, Control, HandlerRecord, TaskRecord, PlacesOf, CallSteps, DiskVerbs, ConfigVerbs, Of
  <2>2. CASE Left # {} /\ handler[h].status = "running"
    <3> DEFINE r == Calling(handler[h], "boot", Nothing, "end")
    <3>1. /\ Becomes(h, r) /\ r.task = Of(h) /\ r.pc = "watch" /\ r.call.action = "boot"
          /\ r.status = handler[h].status
      BY <1>2, <1>5, <2>2 DEF ListDisks, Do, Calling, HandlerRecord, Of
    <3>2. Owes(r)
      <4> HIDE DEF r
      <4> QED
        BY <2>1, <2>2, <3>1 DEF Owes, CallSteps
    <3> HIDE DEF r
    <3> QED
      BY <1>1, <3>1, <3>2, CalmQuiet, CalmBack DEF Quietly
  <2>3. CASE ~(Left # {} /\ handler[h].status = "running")
    <3>1. PICK r : Becomes(h, r) /\ r.task = Of(h)
      BY <1>5, <2>3, GoesOn DEF ListDisks, Return
    <3>2. Left # {} => ~Owes(handler[h])
      BY <2>1, <2>3, HandlerFacts DEF Owes, CallSteps, DiskVerbs, Control, Of
    <3> QED
      BY <1>1, <3>1, <3>2, CalmQuiet, CalmBack DEF Quietly
  <2> QED
    BY <2>2, <2>3
<1> QED
  BY <1>3, <1>4, <1>5

LEMMA CalmApply ==
    ASSUME IInv, CalmInv, NEW h \in Handlers, Apply(h)
    PROVE  CalmInv'
<1>1. Quietly /\ handler[h].pc = "apply" /\ ~Awaits(handler[h], Last)
  BY DEF Apply, At, Awaits
<1>2. /\ Of(h).verb \in ConfigVerbs /\ handler[h] \in HandlerRecord
  BY <1>1, ConfigTask
<1>3. CASE Manages(h)
  <2> DEFINE r == [handler[h] EXCEPT !.pc = "decide", !.status = linode.power]
  <2>1. /\ Becomes(h, r) /\ r.task = Of(h) /\ r.pc = "decide" /\ r.status = linode.power
        /\ r.off = handler[h].off
    BY <1>2, <1>3 DEF Apply, HandlerRecord, Of
  <2>2. Owes(handler[h]) => Owes(r) \/ On
    <3> HIDE DEF r
    <3> QED
      BY <1>1, <1>2, <2>1 DEF Owes, On, IsBooted, CallSteps, DiskVerbs, ConfigVerbs, Of
  <2> HIDE DEF r
  <2> QED
    BY <1>1, <2>1, <2>2, CalmQuiet, CalmBack DEF Quietly
<1>4. CASE ~Manages(h)
  <2>1. PICK r : Becomes(h, r) /\ r.task = Of(h)
    BY <1>4, GoesOn DEF Apply
  <2>2. ~Owes(handler[h])
    BY <1>1, <1>2, <1>4 DEF Owes, CallSteps, DiskVerbs, ConfigVerbs, Of, Manages
  <2> QED
    BY <1>1, <2>1, <2>2, CalmQuiet, CalmBack DEF Quietly
<1> QED
  BY <1>3, <1>4

LEMMA CalmDecide ==
    ASSUME IInv, CalmInv, NEW h \in Handlers, Decide(h)
    PROVE  CalmInv'
<1>1. Quietly /\ handler[h].pc = "decide" /\ ~Awaits(handler[h], Last)
  BY DEF Decide, At, Awaits
<1>2. /\ Of(h).verb \in ConfigVerbs /\ handler[h] \in HandlerRecord
  BY <1>1, ConfigTask
<1> DEFINE q == [handler[h] EXCEPT !.current = CurrentBootedConfig]
           boots == Calling(q, "boot", Of(h).on, "end")
           runs == [q EXCEPT !.pc = "running"]
<1>3. CASE Owes(handler[h])
  <2>1. handler[h].off /\ Of(h).booted = "true" /\ ~IsBooted(handler[h].status)
    BY <1>1, <1>2, <1>3 DEF Owes, CallSteps, DiskVerbs, ConfigVerbs, Of
  <2>2. /\ Becomes(h, boots) /\ boots.task = Of(h) /\ boots.pc = "watch"
        /\ boots.call.action = "boot" /\ boots.off
    BY <1>2, <2>1 DEF Decide, Calling, HandlerRecord, Of
  <2>3. Owes(boots)
    <3> HIDE DEF boots
    <3> QED
      BY <2>2 DEF Owes
  <2> HIDE DEF boots
  <2> QED
    BY <1>1, <2>2, <2>3, CalmQuiet, CalmBack DEF Quietly
<1>4. CASE ~Owes(handler[h])
  <2>1. Becomes(h, runs) \/ Becomes(h, boots) \/ End(h, "ok")
    BY DEF Decide
  <2>2. runs.task = Of(h) /\ boots.task = Of(h)
    BY <1>2 DEF Calling, HandlerRecord, Of
  <2>3. \E r : Becomes(h, r) /\ r.task = Of(h)
    <3> HIDE DEF runs, boots
    <3> QED
      BY <2>1, <2>2, GoesOn
  <2> QED
    BY <1>1, <1>4, <2>3, CalmQuiet, CalmBack DEF Quietly
<1> QED
  BY <1>3, <1>4

\* As long as nothing fails, what a handler waits for has finished; a handler that
\* waits for the job that runs waits on.
LEMMA CalmAwait ==
    ASSUME IInv, CalmInv, NEW h \in Handlers, Await(h)
    PROVE  CalmInv'
<1>1. Quietly /\ handler[h].pc = "await" /\ handler[h].pc \in CallSteps
  BY DEF Await, At, CallSteps
<1>2. handler[h] \in HandlerRecord
  BY HandlerFacts
<1> DEFINE i == LatestOf(Polled(h))
<1>3. i \in DOMAIN events /\ i \in Polled(h) /\ \A j \in Polled(h) : j <= i
  <2>1. Polled(h) \subseteq DOMAIN events /\ Polled(h) # {}
    BY DEF Polled, Await
  <2> QED
    BY <2>1, LatestIsLast DEF IInv
<1>4. Busy => ~Awaits(handler[h], Last)
  <2> SUFFICES ASSUME Busy, Awaits(handler[h], Last) PROVE FALSE
    OBVIOUS
  <2>1. linode.job = Len(events) /\ Last.status = "started" /\ linode.job # 0
    BY DEF IInv, JobInv, Busy
  <2>2. Len(events) \in DOMAIN events /\ DOMAIN events = 1 .. Len(events) /\ Len(events) \in Nat
    BY <2>1 DEF IInv, Typed
  <2>3. Len(events) \in Polled(h)
    BY <2>2 DEF Polled, Awaits, Last, DiskActions
  <2>4. i = Len(events)
    BY <1>3, <2>2, <2>3
  <2> HIDE DEF i
  <2> QED
    BY <2>1, <2>4 DEF Await, EventOf, Last, i
<1>5. Calm => EventOf(h).status = "finished"
  <2>1. EventOf(h) = events[i] /\ events[i] \in EventRecord
    BY <1>3 DEF EventOf, IInv, Typed
  <2> HIDE DEF i
  <2> QED
    BY <1>3, <2>1 DEF CalmInv, Await, EventRecord
<1>6. CASE ~Calm \/ ~Owes(handler[h])
  <2>1. \E r : Becomes(h, r) /\ r.task = Of(h)
    <3>1. CASE EventOf(h).status = "finished"
      BY <3>1, GoesOn DEF Await, Return
    <3>2. CASE EventOf(h).status # "finished"
      <4>1. [handler[h] EXCEPT !.pc = "list", !.noted = TRUE].task = Of(h)
        BY <1>2 DEF HandlerRecord, Of
      <4>2. \/ Becomes(h, [handler[h] EXCEPT !.pc = "list", !.noted = TRUE])
            \/ Goto(h, "apply") \/ Fail(h)
        BY <3>2, CallFacts, <1>1 DEF Await, FailCall
      <4> QED
        BY <4>1, <4>2, GoesOn DEF Fail
    <3> QED
      BY <3>1, <3>2
  <2> QED
    BY <1>1, <1>4, <1>6, <2>1, CalmQuiet, CalmBack DEF Quietly
<1>7. CASE Calm /\ Owes(handler[h])
  <2> DEFINE next == handler[h].next
             r == [handler[h] EXCEPT !.pc = next]
  <2>1. Return(h, next)
    BY <1>5, <1>7 DEF Await
  <2>2. \/ /\ handler[h].task.verb \in DiskVerbs /\ handler[h].status = "running"
           /\ handler[h].call.action \in DiskActions \union {"shutdown"}
        \/ handler[h].off /\ handler[h].call.action = "shutdown"
    BY <1>1, <1>7 DEF Owes
  <2>3. \/ handler[h].task.verb \in DiskVerbs /\ next \in {"operate", "check", "list"}
        \/ handler[h].off /\ next = "put"
        \/ handler[h].task.booted = "false" /\ handler[h].call.action = "shutdown"
              /\ handler[h].task.verb \notin DiskVerbs
    BY <1>1, <2>2, CallFacts, HandlerFacts DEF DiskCalls, ConfigCalls, Makes, DiskActions, DiskVerbs, Control
  <2>4. CASE next \in {"operate", "check", "list", "put"}
    <3>1. /\ Becomes(h, r) /\ r.task = Of(h) /\ r.pc = next /\ r.status = handler[h].status
          /\ r.off = handler[h].off
      BY <1>2, <2>1, <2>4 DEF Return, Goto, HandlerRecord, Of
    <3>2. handler[h].off => handler[h].task.verb \notin DiskVerbs
      BY HandlerFacts DEF Control, DiskVerbs
    <3>3. CASE handler[h].task.verb \in DiskVerbs
      <4>1. Owes(r)
        <5> HIDE DEF r, next
        <5> QED
          BY <2>2, <2>3, <3>1, <3>2, <3>3 DEF Owes, Of
      <4> HIDE DEF r
      <4> QED
        BY <1>1, <1>4, <3>1, <4>1, CalmQuiet, CalmBack DEF Quietly
    <3>4. CASE handler[h].task.verb \notin DiskVerbs /\ next = "put"
      <4>1. Owes(r)
        <5> HIDE DEF r, next
        <5> QED
          BY <2>2, <2>3, <3>1, <3>4 DEF Owes, Of
      <4> HIDE DEF r
      <4> QED
        BY <1>1, <1>4, <3>1, <4>1, CalmQuiet, CalmBack DEF Quietly
    <3>5. handler[h].task.verb \in DiskVerbs \/ next = "put"
      BY <1>1, <2>2, <2>3, <2>4, CallFacts DEF ConfigCalls, Makes
    <3> QED
      BY <3>3, <3>4, <3>5
  <2>5. CASE handler[h].task.booted = "false"
    <3>1. ~Benign
      BY <2>5 DEF Benign, TurnsOff, Of
    <3>2. PICK x : Becomes(h, x) /\ x.task = Of(h)
      BY <2>1, GoesOn DEF Return
    <3> QED
      BY <1>1, <1>4, <3>1, <3>2, CalmQuiet, CalmBack DEF Quietly
  <2> QED
    BY <2>3, <2>4, <2>5
<1> QED
  BY <1>6, <1>7

LEMMA CalmPut ==
    ASSUME IInv, CalmInv, NEW h \in Handlers, Put(h)
    PROVE  CalmInv'
<1>1. /\ handler[h].pc = "put" /\ UNCHANGED <<events, skip, wasOn, failures>>
      /\ Of(h).verb \in {"change", "rewire"} /\ handler[h] \in HandlerRecord
      /\ linode \in LinodeRecord
  <2>1. handler[h].pc = "put"
    BY DEF Put, At
  <2> QED
    BY <2>1, ConfigTask DEF Put, Settings, PlacesOf, ConfigVerbs, IInv, Typed
<1>2. /\ linode'.power = linode.power /\ linode'.job = linode.job
      /\ linode'.disks = linode.disks /\ linode'.configs = linode.configs
  BY <1>1 DEF Put, LinodeRecord
<1>3. \E r : /\ Becomes(h, r) /\ r.task = Of(h)
             /\ Benign /\ Owes(handler[h]) => Owes(r)
  <2>1. CASE handler[h].off /\ ~Manages(h)
    <3> DEFINE r == Calling(handler[h], "boot", Of(h).on, "unlooked")
    <3>1. /\ Becomes(h, r) /\ r.task = Of(h) /\ r.pc = "watch" /\ r.call.action = "boot"
          /\ r.off = handler[h].off
      BY <1>1, <2>1 DEF Put, Do, Calling, HandlerRecord, Of
    <3> HIDE DEF r
    <3>2. Owes(r)
      BY <2>1, <3>1 DEF Owes
    <3> QED
      BY <3>1, <3>2
  <2>2. CASE ~(handler[h].off /\ ~Manages(h))
    <3> DEFINE r == [handler[h] EXCEPT !.pc = "apply"]
    <3>1. /\ Becomes(h, r) /\ r.task = Of(h) /\ r.pc = "apply" /\ r.off = handler[h].off
      BY <1>1, <2>2 DEF Put, Goto, HandlerRecord, Of
    <3> HIDE DEF r
    <3>2. ASSUME Benign, Owes(handler[h]) PROVE Owes(r)
      <4>1. handler[h].off
        BY <1>1, <3>2 DEF Owes, CallSteps, DiskVerbs, Of
      <4>2. Of(h).booted \in {"unset", "true", "false"} /\ Of(h).booted # "false"
        BY <1>1, <3>2, ConfigTask DEF Benign, TurnsOff
      <4> QED
        BY <2>2, <3>1, <4>1, <4>2 DEF Owes, Manages
    <3> QED
      BY <3>1, <3>2
  <2> QED
    BY <2>1, <2>2
<1>4. PICK r : /\ Becomes(h, r) /\ r.task = Of(h)
               /\ Benign /\ Owes(handler[h]) => Owes(r)
  BY <1>3
<1>5. handler'[h] = r /\ \A g \in Handlers : g # h => handler'[g] = handler[g]
  BY <1>4 DEF IInv, Typed, Becomes
<1>6. Benign' = Benign /\ Calm' = Calm
  BY <1>1, <1>4, <1>5 DEF Benign, Calm, Of
<1>7. Busy' = Busy /\ Left' = Left /\ On' = On /\ Last' = Last
  BY <1>1, <1>2 DEF Busy, Left, On, Last
<1> SUFFICES ASSUME Calm
    PROVE  /\ \A i \in DOMAIN events' : events'[i].status # "failed"
           /\ Busy => \E g \in Handlers : Awaits(handler[g], Last)'
           /\ Benign => linode'.configs = Configs
           /\ Benign /\ wasOn' /\ Left # {} => On \/ \E g \in Handlers : Owes(handler'[g])
  BY <1>6, <1>7 DEF CalmInv, Owes
<1>8. ASSUME Busy PROVE \E g \in Handlers : Awaits(handler[g], Last)'
  <2>1. PICK g \in Handlers : Awaits(handler[g], Last)
    BY <1>8 DEF CalmInv
  <2>2. g # h
    BY <1>1, <2>1 DEF Awaits
  <2> QED
    BY <1>1, <1>5, <1>7, <2>1, <2>2 DEF Awaits
<1>9. Benign /\ wasOn /\ Left # {} => On \/ \E g \in Handlers : Owes(handler'[g])
  BY <1>4, <1>5 DEF CalmInv
<1> QED
  BY <1>1, <1>2, <1>8, <1>9 DEF CalmInv

\* A config is deleted by a task that may leave the Linode off.
LEMMA CalmDropConfig ==
    ASSUME IInv, CalmInv, NEW h \in Handlers, DropConfig(h)
    PROVE  CalmInv'
<1>1. /\ handler[h].pc = "drop" /\ UNCHANGED <<events, skip, wasOn, failures>>
      /\ Of(h).verb = "remove" /\ handler[h] \in HandlerRecord
      /\ linode \in LinodeRecord
  <2>1. handler[h].pc = "drop"
    BY DEF DropConfig, At
  <2> QED
    BY <2>1, ConfigTask DEF DropConfig, Settings, PlacesOf, ConfigVerbs, IInv, Typed
<1>2. linode'.job = linode.job
  BY <1>1 DEF DropConfig, LinodeRecord
<1>3. PICK r : Becomes(h, r) /\ r.task = Of(h)
  BY GoesOn DEF DropConfig
<1>4. handler'[h] = r /\ \A g \in Handlers : g # h => handler'[g] = handler[g]
  BY <1>3 DEF IInv, Typed, Becomes
<1>5. ~Benign'
  BY <1>1, <1>3, <1>4 DEF Benign, TurnsOff, Of
<1>6. Calm' = Calm /\ Busy' = Busy /\ Last' = Last
  BY <1>1, <1>2 DEF Calm, Busy, Last
<1>7. ASSUME Calm, Busy PROVE \E g \in Handlers : Awaits(handler[g], Last)'
  <2>1. PICK g \in Handlers : Awaits(handler[g], Last)
    BY <1>7 DEF CalmInv
  <2>2. g # h
    BY <1>1, <2>1 DEF Awaits
  <2> QED
    BY <1>1, <1>4, <1>6, <2>1, <2>2 DEF Awaits
<1> QED
  BY <1>1, <1>5, <1>6, <1>7 DEF CalmInv

\* A request that is refused, while no other job is under way, finds the Linode
\* running, or is a deletion, which goes on; one that is accepted starts a boot, or
\* is a shutdown of somebody who will boot the Linode again.
LEMMA CalmRequest ==
    ASSUME IInv, CalmInv, NEW h \in Handlers, Request(h)
    PROVE  CalmInv'
<1> DEFINE call == handler[h].call
<1>1. /\ handler[h].pc = "request" /\ handler[h].pc \in CallSteps /\ At(h, "request") /\ ~Busy
      /\ UNCHANGED <<skip, wasOn, failures>> /\ handler[h] \in HandlerRecord
      /\ linode.power \in {"running", "offline"}
  BY HandlerFacts DEF Request, At, CallSteps, Settings, IInv, JobInv
<1>2. CASE ~Accepts(call.action, call.on)
  <2>1. FailCall(h) /\ UNCHANGED <<linode, events>>
    BY <1>2 DEF Request, API
  <2> DEFINE listed == [handler[h] EXCEPT !.pc = "list", !.noted = TRUE]
  <2>2. CASE call.action = "disk_delete"
    <3>1. handler[h].task.verb = "delete" /\ handler[h].next = "list"
      BY <1>1, <2>2, CallFacts DEF DiskCalls, ConfigCalls, Makes
    <3>2. /\ Becomes(h, listed) /\ listed.task = Of(h) /\ listed.pc = "list"
          /\ listed.status = handler[h].status
      BY <1>1, <2>1, <2>2, <3>1 DEF FailCall, Ignores, HandlerRecord, Of
    <3>3. ~handler[h].off
      BY <3>1, HandlerFacts DEF Control
    <3> HIDE DEF listed
    <3>4. Owes(handler[h]) => Owes(listed)
      BY <3>1, <3>2, <3>3 DEF Owes, DiskVerbs, Of
    <3> QED
      BY <1>1, <2>1, <3>2, <3>4, CalmQuiet, CalmBack
  <2>3. CASE call.action # "disk_delete"
    <3>1. \E r : Becomes(h, r) /\ r.task = Of(h)
      BY <2>1, <2>3, GoesOn DEF FailCall, Fail
    <3>2. ASSUME Calm, Benign, Owes(handler[h]) PROVE On
      <4>1. call.action \in {"disk_resize", "boot"}
        BY <1>1, <2>3, <3>2 DEF Owes, DiskActions
      <4>2. CASE call.action = "disk_resize"
        BY <1>1, <1>2, <4>2 DEF Accepts, On
      <4>3. CASE call.action = "boot"
        <5>1. call.on \in Configs \union {Nothing}
          <6>1. call.on = Nothing \/ (call.on = Of(h).on /\ Of(h).verb \in ConfigVerbs)
            BY <1>1, <4>3, CallFacts DEF DiskCalls, ConfigCalls, Makes, Of, ConfigVerbs
          <6> QED
            BY <1>1, <6>1 DEF HandlerRecord, TaskRecord, DiskVerbs, ConfigVerbs, Of
        <5>2. linode.configs = Configs /\ linode.booted \in Configs
          BY <3>2 DEF CalmInv, IInv, Typed, LinodeRecord
        <5>3. Target(call.on) \in linode.configs
          BY <5>1, <5>2 DEF Target
        <5> QED
          BY <1>1, <1>2, <4>3, <5>3 DEF Accepts, On
      <4> QED
        BY <4>1, <4>2, <4>3
    <3> QED
      BY <1>1, <2>1, <3>1, <3>2, CalmQuiet, CalmBack
  <2> QED
    BY <2>2, <2>3
<1>3. CASE Accepts(call.action, call.on)
  <2> DEFINE r == [handler[h] EXCEPT !.pc = "await"]
             n == Len(events) + 1
             about == IF call.action \in Boots THEN Target(call.on) ELSE call.on
  <2>1. StartJob(call.action, call.on) /\ Becomes(h, r)
    BY <1>3 DEF Request, Goto
  <2>2. /\ r.task = Of(h) /\ r.pc = "await" /\ r.call = call /\ r.off = handler[h].off
        /\ r.status = handler[h].status /\ r.watch = handler[h].watch
    BY <1>1 DEF HandlerRecord, Of
  <2>3. /\ call.action \in Actions /\ call.on \in Subjects
        /\ call.action \in Boots => Target(call.on) \in Configs
        /\ call.action \in DiskActions => call.on \in Disks /\ linode.power = "offline"
    BY <1>1, <1>3, AcceptedCall
  <2>4. /\ linode'.job = n /\ Len(events') = n
        /\ linode'.power = CASE call.action = "boot"     -> "booting"
                             [] call.action = "reboot"   -> "rebooting"
                             [] call.action = "shutdown" -> "shutting_down"
                             [] OTHER                    -> linode.power
        /\ linode'.disks = linode.disks /\ linode'.configs = linode.configs
        /\ events'[n] = [action |-> call.action, status |-> "started", on |-> about]
        /\ \A i \in DOMAIN events : i \in DOMAIN events' /\ events'[i] = events[i]
        /\ \A i \in DOMAIN events' : i \in DOMAIN events \/ i = n
    <3> HIDE DEF call
    <3> QED
      BY <2>1, <2>3, StartEffect DEF IInv
  <2>5. Len(events) \in Nat
    BY DEF IInv, Typed
  <2>6. handler'[h] = r /\ \A g \in Handlers : g # h => handler'[g] = handler[g]
    BY <2>1 DEF IInv, Typed, Becomes
  <2>7. Benign' = Benign /\ Calm' = Calm /\ Left' = Left /\ Last' = events'[n]
    <3>1. \A g \in Handlers : Of(g)' = Of(g)
      BY <2>2, <2>6 DEF Of
    <3>2. linode'.disks = linode.disks /\ failures' = failures /\ Len(events') = n
      BY <1>1, <2>4
    <3> HIDE DEF n, r
    <3> QED
      BY <3>1, <3>2 DEF Benign, Calm, Left, Last
  <2>8. Awaits(handler[h], Last)'
    <3>1. handler[h].watch < n
      BY <2>5, HandlerFacts DEF Control, HandlerRecord
    <3>2. Last'.action = call.action /\ (call.action \in DiskActions => Last'.on = call.on)
      <4>1. call.action \in DiskActions => call.action \notin Boots
        BY DEF DiskActions, Boots
      <4> HIDE DEF n
      <4> QED
        BY <2>4, <2>7, <4>1
    <3> HIDE DEF r, call, n
    <3> QED
      BY <2>2, <2>4, <2>6, <3>1, <3>2 DEF Awaits
  <2>9. ASSUME Calm, Benign, wasOn, Left # {} PROVE On' \/ \E g \in Handlers : Owes(handler'[g])
    <3>1. CASE call.action \in Boots
      BY <2>4, <3>1 DEF Boots, On
    <3>2. CASE call.action = "shutdown"
      <4>1. \/ handler[h].task.verb \in DiskVerbs /\ handler[h].status = "running"
            \/ handler[h].off
            \/ TurnsOff(Of(h))
        BY <1>1, <3>2, CallFacts DEF DiskCalls, ConfigCalls, Makes, TurnsOff, Of
      <4>2. (handler[h].task.verb \in DiskVerbs /\ handler[h].status = "running") \/ handler[h].off
        BY <2>9, <4>1 DEF Benign
      <4> HIDE DEF r, call
      <4>3. Owes(r)
        BY <2>2, <3>2, <4>2 DEF Owes, Of
      <4> QED
        BY <2>6, <4>3
    <3>3. CASE call.action \in DiskActions
      <4>1. linode.power = "offline"
        BY <2>3, <3>3
      <4>2. PICK g \in Handlers : Owes(handler[g])
        BY <2>9, <4>1 DEF CalmInv, On
      <4>3. CASE g # h
        BY <2>6, <4>2, <4>3
      <4>4. CASE g = h
        <5> HIDE DEF r
        <5>1. handler[h].task.verb \in DiskVerbs /\ handler[h].status = "running"
          BY <1>1, <3>3, <4>2, <4>4 DEF Owes, DiskActions
        <5>2. Owes(r)
          BY <2>2, <3>3, <5>1 DEF Owes, Of, CallSteps
        <5> QED
          BY <2>6, <5>2
      <4> QED
        BY <4>3, <4>4
    <3> QED
      BY <2>3, <3>1, <3>2, <3>3 DEF Actions, Boots, DiskActions
  <2>10. ASSUME Calm, NEW i \in DOMAIN events' PROVE events'[i].status # "failed"
    BY <2>4, <2>10 DEF CalmInv
  <2> QED
    BY <1>1, <2>4, <2>7, <2>8, <2>9, <2>10 DEF CalmInv, Owes
<1> QED
  BY <1>2, <1>3

\* A job that ends without failing leaves a Linode on that was being booted, and one
\* off that somebody shut down who will boot it.
LEMMA CalmEndJob ==
    ASSUME IInv, CalmInv, EndJob
    PROVE  CalmInv'
<1> DEFINE n == linode.job
           job == events[n]
<1>1. /\ linode \in LinodeRecord /\ events \in Seq(EventRecord) /\ failures \in 0 .. MaxFailures
      /\ UNCHANGED <<handler, skip, wasOn>> /\ MaxFailures \in Nat
  BY PowerAssumption DEF IInv, Typed, EndJob
<1> SUFFICES ASSUME Calm' PROVE CalmInv'
  BY DEF CalmInv
<1>2. failures' # failures - 1 \/ failures = 0
  BY <1>1 DEF Calm
<1> DEFINE up == CASE linode.power \in {"booting", "rebooting"} -> "running"
                   [] linode.power = "shutting_down"            -> "offline"
                   [] OTHER                                     -> linode.power
           disks == CASE job.action = "disk_resize" -> [linode.disks EXCEPT ![job.on] = "new"]
                      [] job.action = "disk_delete" -> [linode.disks EXCEPT ![job.on] = "gone"]
                      [] OTHER                      -> linode.disks
<1>3. /\ events' = [events EXCEPT ![n].status = "finished"] /\ failures' = failures
      /\ linode' = [linode EXCEPT !.job = 0, !.power = up, !.disks = disks]
  BY <1>1, <1>2 DEF EndJob
<1>4. Calm /\ linode'.job = 0 /\ linode'.power = up /\ linode'.disks = disks
         /\ linode'.configs = linode.configs
  <2> HIDE DEF up, disks
  <2> QED
    BY <1>1, <1>3 DEF Calm, LinodeRecord
<1>5. Busy /\ n \in DOMAIN events /\ n = Len(events) /\ job = Last
  BY <1>1 DEF EndJob, IInv, JobInv, Busy, LinodeRecord, Last
<1>6. \A i \in DOMAIN events' : events'[i].status # "failed"
  BY <1>1, <1>3, <1>4, <1>5 DEF CalmInv, EventRecord
<1>7. On => On'
  <2>1. linode.power # "running"
    BY <1>5 DEF IInv, JobInv
  <2> QED
    BY <1>4, <2>1 DEF On
<1>8. Left' # {} => Left # {}
  <2> SUFFICES ASSUME NEW d \in Disks, linode'.disks[d] # "gone" PROVE linode.disks[d] # "gone"
    BY DEF Left
  <2> SUFFICES ASSUME linode.disks[d] = "gone" PROVE FALSE
    OBVIOUS
  <2>1. job.action = "disk_resize" /\ job.on = d
    <3>1. linode.disks \in [Disks -> {"old", "new", "gone"}]
      BY <1>1 DEF LinodeRecord
    <3>2. \/ job.action = "disk_resize" /\ disks = [linode.disks EXCEPT ![job.on] = "new"]
          \/ job.action = "disk_delete" /\ disks = [linode.disks EXCEPT ![job.on] = "gone"]
          \/ disks = linode.disks
      OBVIOUS
    <3> HIDE DEF disks, job
    <3> QED
      BY <1>4, <3>1, <3>2
  <2>2. PICK g \in Handlers : Works(g, "disk_delete", d)
    BY DEF IInv, EventInv
  <2>3. PICK h \in Handlers : Works(h, "disk_resize", d)
    BY <1>5, <2>1 DEF IInv, EventInv, Told, DiskActions
  <2>4. g = h
    BY <2>2, <2>3, OneWorks DEF Works
  <2> QED
    BY <2>2, <2>3, <2>4 DEF Works
<1>9. Benign' = Benign
  BY <1>1 DEF Benign, Of
<1>10. Benign => linode'.configs = Configs
  BY <1>4 DEF CalmInv
<1>11. Benign /\ wasOn /\ Left' # {} => On' \/ \E g \in Handlers : Owes(handler[g])
  BY <1>4, <1>7, <1>8 DEF CalmInv
<1> QED
  <2> HIDE DEF up, disks, job, n
  <2> QED
    BY <1>1, <1>4, <1>6, <1>9, <1>10, <1>11 DEF CalmInv, Busy, Owes

LEMMA CalmCallFails ==
    ASSUME IInv, CalmInv, NEW h \in Handlers, CallFails(h)
    PROVE  CalmInv'
<1>1. failures \in 0 .. MaxFailures /\ MaxFailures \in Nat /\ failures > 0 /\ failures' = failures - 1
  BY PowerAssumption DEF IInv, Typed, CallFails
<1>2. ~Calm'
  BY <1>1 DEF Calm
<1> QED
  BY <1>2 DEF CalmInv

LEMMA CalmStutter ==
    ASSUME CalmInv, UNCHANGED vars
    PROVE  CalmInv'
<1>1. /\ linode' = linode /\ events' = events /\ handler' = handler
      /\ skip' = skip /\ wasOn' = wasOn /\ failures' = failures
  BY DEF vars
<1> QED
  BY <1>1 DEF CalmInv, Calm, Busy, Left, On, Last, Benign, Of, Awaits, Owes

LEMMA InitCalm == Init => CalmInv
<1> SUFFICES ASSUME Init PROVE CalmInv
  OBVIOUS
<1>1. PICK power \in {"running", "offline"}, c \in Configs : Begins(power, c)
  BY DEF Init
<1>2. linode.job = 0 /\ linode.power = power /\ linode.configs = Configs
  BY <1>1 DEF Begins
<1>3. \A i \in DOMAIN events : events[i].status # "failed"
  <2> DEFINE e == [action |-> "boot", on |-> c, status |-> "finished"]
  <2>1. CASE events = <<>>
    BY <2>1
  <2>2. CASE events = <<e>>
    BY <2>2
  <2> QED
    BY <1>1, <2>1, <2>2 DEF Begins
<1>4. wasOn => On
  BY <1>2 DEF Init, On
<1> QED
  BY <1>2, <1>3, <1>4 DEF CalmInv, Busy

LEMMA NextCalm == IInv /\ CalmInv /\ [Next]_vars => CalmInv'
<1> SUFFICES ASSUME IInv, CalmInv, [Next]_vars PROVE CalmInv'
  OBVIOUS
<1>1. CASE EndJob
  BY <1>1, CalmEndJob
<1>2. ASSUME NEW h \in Handlers, Step(h) PROVE CalmInv'
  BY <1>2, CalmWatch, CalmRequest, CalmAwait, CalmRestSteps, CalmDiskSteps, CalmPut, CalmApply,
     CalmDecide, CalmDropConfig
  DEF Step
<1>3. ASSUME NEW h \in Handlers, CallFails(h) PROVE CalmInv'
  BY <1>3, CalmCallFails
<1>4. CASE UNCHANGED vars
  BY <1>4, CalmStutter
<1> QED
  BY <1>1, <1>2, <1>3, <1>4 DEF Next

\* Handlers that have to shut the Linode down bring it back between them, however
\* many there are and however their requests get into each other's way, as long as
\* nothing fails: the job that runs is awaited, so that nobody ends before it, and
\* while the Linode is off one of them has the boot still before it.
THEOREM PowerComesBack == Spec => []RunsAgain
<1>1. Spec => [](IInv /\ CalmInv)
  BY InitIInv, InitCalm, NextIInv, NextCalm, PTL DEF Spec
<1>2. IInv /\ CalmInv => RunsAgain
  <2> SUFFICES ASSUME IInv, CalmInv, Ended, failures = MaxFailures, wasOn, Left # {}, Benign
      PROVE  linode.power = "running"
    BY DEF RunsAgain, Benign
  <2>1. \A h \in Handlers : ~Owes(handler[h]) /\ ~Awaits(handler[h], Last)
    BY DEF Ended, At, Owes, Awaits, CallSteps
  <2>2. ~Busy /\ On
    BY <2>1 DEF CalmInv, Calm
  <2> QED
    BY <2>2 DEF IInv, JobInv, On
<1> QED
  BY <1>1, <1>2, PTL
================================================================================

---------------------------- MODULE LinodePowerSettled ----------------------------
(* How the handlers of LinodePower leave the Linode when all of them succeed, for  *)
(* any number of them that work on disks and one that works on a config or reboots.*)
EXTENDS LinodePowerProofs

-----------------------------------------------------------------------------
(* The tasks, by what they do to the power. *)

Updates    == {"create", "change", "rewire"}
Booter(t)  == t.verb \in Updates /\ t.booted = "true"
Stopper(t) == t.verb \in Updates /\ t.booted = "false"
Neutral(t) ==
    \/ t.verb \in DiskVerbs \union {"reboot"}
    \/ t.verb \in {"create", "change"} /\ t.booted = "unset"

\* The one kind of task that does not look at the result of its boot is not Plain.
Plain(t) == ~(t.verb = "rewire" /\ t.booted = "unset")

\* All others work on disks.
Alone(h) == \A g \in Handlers \ {h} : OfDisk(g)

\* No handler has failed so far, or will.
Well == \A g \in Handlers : handler[g].result # "error" /\ ~handler[g].noted

-----------------------------------------------------------------------------
(* What holds as long as no handler has failed; jobs may have. *)

PowerActions == Boots \union {"shutdown"}
LastOf(i, actions) == \A j \in DOMAIN events : j > i => events[j].action \notin actions

\* What the events tell of the Linode.
EventsTell ==
    /\ \A i \in DOMAIN events :
          events[i].action \in Boots /\ LastOf(i, Boots) => linode.booted = events[i].on
    /\ \A i \in DOMAIN events :
          events[i].action = "shutdown" /\ events[i].status = "finished" /\ LastOf(i, PowerActions)
             => linode.power = "offline"

\* The configs are deleted by nobody else.
ConfigsKept == (\A g \in Handlers : Of(g).verb # "remove") => linode.configs = Configs

\* A Linode that was off is not booted unless a config is to be.
Cold(r) == r.status # "running" /\ ~r.off /\ (r.pc \in CallSteps => r.call.action # "boot")
ColdInv ==
    ~wasOn /\ (\A g \in Handlers : ~Booter(Of(g))) =>
        linode.power = "offline" /\ \A g \in Handlers : Cold(handler[g])

\* The job that runs is awaited, so that a failure of it will not go unnoticed.
WatchedInv ==
    Busy /\ (\A g \in Handlers : Plain(Of(g))) => \E g \in Handlers : Awaits(handler[g], Last)

\* A disk handler has to boot the Linode again that it shut down.
Owing(r) ==
    /\ r.task.verb \in DiskVerbs /\ r.status = "running"
    /\ \/ r.pc \in {"operate", "check", "list"}
       \/ r.pc = "await" /\ r.call.action = "shutdown"
       \/ r.pc \in CallSteps /\ r.call.action \in DiskActions
       \/ r.pc \in {"watch", "request"} /\ r.call.action = "boot"

\* The boot that a handler waits for has failed: the handler will.
Doomed(r) ==
    /\ r.pc = "await" /\ r.call.action \in Boots
    /\ \E i \in DOMAIN events :
          /\ i > r.watch /\ events[i].action = r.call.action /\ events[i].status = "failed"
          /\ LastOf(i, Boots)

Warm == Left # {} => On \/ \E g \in Handlers : Owing(handler[g]) \/ Doomed(handler[g])

\* Where nobody is to change the power, a Linode that was on is on or will be.
WarmInv == wasOn /\ (\A g \in Handlers : Neutral(Of(g))) => Warm

\* From the moment a config is booted that is to be, it is the one that runs.
Launched(r) == (r.pc = "await" /\ r.call.action \in Boots) \/ r.result = "ok"
LaunchInv ==
    \A h \in Handlers :
        Alone(h) /\ Booter(Of(h)) /\ Launched(handler[h]) => linode.booted = Of(h).on /\ Warm

\* A config that is not to run: only its handler changes the power, unless a disk
\* handler has found the Linode running.
StopInv ==
    ~Interlude =>
        \A h \in Handlers : Alone(h) /\ Stopper(Of(h)) =>
            /\ At(h, "decide") => handler[h].status = linode.power
            /\ handler[h].result = "ok" =>
                  linode.power = "offline" \/ linode.booted # Of(h).on \/ BootEvents = {}
            /\ \A i \in DOMAIN events : i > 1 => events[i].action \notin Boots

SettledInv ==
    Well => EventsTell /\ ConfigsKept /\ ColdInv /\ WatchedInv /\ WarmInv /\ LaunchInv /\ StopInv

-----------------------------------------------------------------------------
(* The moves of a handler that start no job. *)

Still ==
    /\ UNCHANGED <<events, wasOn>>
    /\ linode'.power = linode.power /\ linode'.job = linode.job
    /\ linode'.booted = linode.booted /\ linode'.disks = linode.disks

\* What the invariant needs to know of the handler before and after a move that it
\* makes without failing.
Move(h, r) ==
    LET q == handler[h]
    IN  /\ Becomes(h, r) /\ r.task = Of(h) /\ r.pc # "await"
        /\ q.pc # "end" /\ (q.noted => r.noted)
        /\ OfDisk(h) /\ q.status = "running" => r.status = "running"
        /\ Owing(q) => Owing(r) \/ Left = {}
        /\ Plain(Of(h)) => ~Doomed(q) /\ ~(Busy /\ Awaits(q, Last))
        /\ linode.power = "offline" /\ Cold(q) /\ ~Booter(Of(h)) => Cold(r)
        /\ Booter(Of(h)) /\ r.result = "ok" =>
              Launched(q) \/ (On /\ CurrentBootedConfig = Of(h).on)
        /\ Stopper(Of(h)) /\ r.pc = "decide" => r.status = linode.power
        /\ Stopper(Of(h)) /\ r.result = "ok" =>
              \/ q.pc = "decide" /\ ~(IsBooted(q.status) /\ CurrentBootedConfig = Of(h).on)
              \/ /\ q.pc = "await" /\ q.call.action = "shutdown"
                 /\ Polled(h) # {} /\ EventOf(h).status = "finished"

Moves(h) ==
    /\ Still /\ (linode'.configs = linode.configs \/ Of(h).verb = "remove")
    /\ \E r : Move(h, r)

\* A failure shows.
LEMMA FailShows ==
    ASSUME IInv, NEW h \in Handlers, Well'
    PROVE  /\ ~Fail(h)
           /\ ~Becomes(h, [handler[h] EXCEPT !.pc = "list", !.noted = TRUE])
<1>1. handler[h] \in HandlerRecord /\ handler \in [Handlers -> HandlerRecord]
  BY DEF IInv, Typed
<1>2. handler'[h].result # "error" /\ ~handler'[h].noted
  BY DEF Well
<1>3. ASSUME NEW r, Becomes(h, r) PROVE handler'[h] = r
  BY <1>1, <1>3 DEF Becomes
<1>4. [handler[h] EXCEPT !.pc = "end", !.result = "error"].result = "error"
  BY <1>1 DEF HandlerRecord
<1>5. [handler[h] EXCEPT !.pc = "list", !.noted = TRUE].noted
  BY <1>1 DEF HandlerRecord
<1> QED
  BY <1>2, <1>3, <1>4, <1>5 DEF Fail, End

\* A move from a place where nothing is owed, awaited or decided.
LEMMA RestMove ==
    ASSUME IInv, NEW h \in Handlers, NEW r, Becomes(h, r), r.task = Of(h),
           handler[h].pc \notin CallSteps \union {"operate", "check", "list", "decide", "end"},
           r.pc # "await", r.noted = handler[h].noted,
           r.result = "ok" => ~Booter(Of(h)) /\ ~Stopper(Of(h)),
           r.pc = "decide" => r.status = linode.power,
           OfDisk(h) /\ handler[h].status = "running" => r.status = "running",
           linode.power = "offline" /\ Cold(handler[h]) /\ ~Booter(Of(h)) => Cold(r)
    PROVE  Move(h, r)
<1>1. ~Owing(handler[h]) /\ ~Doomed(handler[h]) /\ ~Awaits(handler[h], Last)
  BY DEF Owing, Doomed, Awaits, CallSteps
<1> QED
  BY <1>1 DEF Move

LEMMA QuietMoves ==
    ASSUME NEW h \in Handlers, Quietly, NEW r, Move(h, r)
    PROVE  Moves(h)
  BY DEF Moves, Quietly, Still

-----------------------------------------------------------------------------
(* The moves, one by one. *)

LEMMA WithStatusMove ==
    ASSUME IInv, NEW h \in Handlers, Well', WithStatus(h, linode.power),
           handler[h].pc \in {"start", "safe", "settle"},
           OfDisk(h) /\ handler[h].status = "running" => linode.power = "running"
    PROVE  \E r : Move(h, r)
<1> DEFINE q == [handler[h] EXCEPT !.status = linode.power]
           work == IF Of(h).verb \in DiskVerbs THEN "operate" ELSE "put"
           on == [q EXCEPT !.pc = work]
           off == Calling(q, "shutdown", Nothing, work)
<1>1. handler[h] \in HandlerRecord /\ handler[h].result = "none" /\ ~Fail(h)
  BY HandlerFacts, FailShows DEF Control
<1>2. \/ Becomes(h, on) /\ linode.power = "offline"
      \/ Becomes(h, off) /\ linode.power # "offline"
  BY <1>1 DEF WithStatus
<1>3. /\ on.task = Of(h) /\ on.pc = work /\ on.noted = handler[h].noted /\ on.result = "none"
      /\ on.status = linode.power /\ on.off = handler[h].off
  BY <1>1 DEF HandlerRecord, Of
<1>4. /\ off.task = Of(h) /\ off.pc = "watch" /\ off.noted = handler[h].noted /\ off.result = "none"
      /\ off.status = linode.power
  BY <1>1 DEF HandlerRecord, Of, Calling
<1>5. work \in {"operate", "put"}
  OBVIOUS
<1> HIDE DEF on, off, work
<1> QED
  BY <1>2, <1>3, <1>4, <1>5, RestMove DEF CallSteps, Cold

LEMMA FindStatusMove ==
    ASSUME IInv, NEW h \in Handlers, Well', FindStatus(h), handler[h].pc \in {"start", "safe"},
           handler[h].pc = "safe" => ~OfDisk(h)
    PROVE  Moves(h)
<1>1. handler[h] \in HandlerRecord /\ handler[h].result = "none"
         /\ (handler[h].pc = "start" => handler[h].status = Nothing)
  BY HandlerFacts DEF Control
<1>2. OfDisk(h) /\ handler[h].status = "running" => FALSE
  BY <1>1 DEF Nothing
<1>3. CASE Settled(linode.power)
  BY <1>2, <1>3, WithStatusMove, QuietMoves DEF FindStatus
<1>4. CASE ~Settled(linode.power)
  <2> DEFINE r == [handler[h] EXCEPT !.pc = "settle", !.status = Steady(linode.power)]
  <2>1. Becomes(h, r)
    BY <1>4 DEF FindStatus
  <2>2. r.task = Of(h) /\ r.pc = "settle" /\ r.noted = handler[h].noted /\ r.result = "none"
    BY <1>1 DEF HandlerRecord, Of
  <2> HIDE DEF r
  <2>3. Move(h, r)
    BY <1>2, <1>4, <2>1, <2>2, RestMove DEF CallSteps, Settled
  <2> QED
    BY <2>3, QuietMoves DEF FindStatus
<1> QED
  BY <1>3, <1>4

LEMMA StatusMoves ==
    ASSUME IInv, NEW h \in Handlers, Well', Settle(h) \/ StartDisk(h) \/ SafeShutdown(h)
    PROVE  Moves(h)
<1>1. CASE Settle(h)
  <2>1. \E r : Move(h, r)
    BY <1>1, WithStatusMove DEF Settle, At
  <2> QED
    BY <1>1, <2>1, QuietMoves DEF Settle
<1>2. CASE StartDisk(h)
  BY <1>2, FindStatusMove DEF StartDisk, At
<1>3. CASE SafeShutdown(h)
  <2>1. ~OfDisk(h) /\ handler[h].pc = "safe"
    BY <1>3, HandlerFacts DEF SafeShutdown, At, Control, CallSteps, PlacesOf, OfDisk, DiskVerbs, Of
  <2> QED
    BY <1>3, <2>1, FindStatusMove DEF SafeShutdown
<1> QED
  BY <1>1, <1>2, <1>3

\* A move that changes place, and nothing else that matters.
LEMMA GotoMove ==
    ASSUME IInv, NEW h \in Handlers, NEW pc, Goto(h, pc),
           handler[h].pc \notin CallSteps \union {"operate", "check", "list", "decide", "end"},
           pc \notin CallSteps \union {"decide"}
    PROVE  \E r : Move(h, r)
<1> DEFINE r == [handler[h] EXCEPT !.pc = pc]
<1>1. handler[h] \in HandlerRecord /\ handler[h].result = "none"
  BY HandlerFacts DEF Control
<1>2. /\ Becomes(h, r) /\ r.task = Of(h) /\ r.pc = pc /\ r.noted = handler[h].noted
      /\ r.result = "none" /\ r.status = handler[h].status /\ r.off = handler[h].off
  BY <1>1 DEF Goto, HandlerRecord, Of
<1> HIDE DEF r
<1>3. Move(h, r)
  BY <1>2, RestMove DEF CallSteps, Cold
<1> QED
  BY <1>3

\* A call is prepared for; a boot is not by a handler that is cold.
LEMMA DoMove ==
    ASSUME IInv, NEW h \in Handlers, NEW action, NEW on, NEW next, Do(h, action, on, next),
           handler[h].pc \notin CallSteps \union {"operate", "check", "list", "decide", "end"},
           action = "boot" => handler[h].off
    PROVE  \E r : Move(h, r)
<1> DEFINE r == Calling(handler[h], action, on, next)
<1>1. handler[h] \in HandlerRecord /\ handler[h].result = "none"
  BY HandlerFacts DEF Control
<1>2. /\ Becomes(h, r) /\ r.task = Of(h) /\ r.pc = "watch" /\ r.noted = handler[h].noted
      /\ r.result = "none" /\ r.status = handler[h].status /\ r.off = handler[h].off
      /\ r.call.action = action
  BY <1>1 DEF Do, Calling, HandlerRecord, Of
<1> HIDE DEF r
<1>3. Move(h, r)
  BY <1>2, RestMove DEF CallSteps, Cold
<1> QED
  BY <1>3

LEMMA EndMove ==
    ASSUME IInv, NEW h \in Handlers, End(h, "ok"),
           handler[h].pc \notin CallSteps \union {"operate", "check", "list", "decide", "end"},
           ~Booter(Of(h)), ~Stopper(Of(h))
    PROVE  \E r : Move(h, r)
<1> DEFINE r == [handler[h] EXCEPT !.pc = "end", !.result = "ok"]
<1>1. handler[h] \in HandlerRecord
  BY HandlerFacts
<1>2. /\ Becomes(h, r) /\ r.task = Of(h) /\ r.pc = "end" /\ r.noted = handler[h].noted
      /\ r.status = handler[h].status /\ r.off = handler[h].off
  BY <1>1 DEF End, HandlerRecord, Of
<1> HIDE DEF r
<1>3. Move(h, r)
  BY <1>2, RestMove DEF CallSteps, Cold
<1> QED
  BY <1>3

LEMMA StartConfigMove ==
    ASSUME IInv, NEW h \in Handlers, Well', StartConfig(h)
    PROVE  Moves(h)
<1>1. handler[h] \in HandlerRecord /\ handler[h].result = "none" /\ handler[h].pc = "start"
         /\ Of(h).verb \in ConfigVerbs
  BY HandlerFacts DEF Control, StartConfig, At
<1>2. CASE Goto(h, "apply")
  <2>1. \E r : Move(h, r)
    BY <1>1, <1>2, GotoMove DEF CallSteps
  <2> QED
    BY <2>1, QuietMoves DEF StartConfig
<1>3. ASSUME NEW pc \in {"removal", "inspect"},
             Becomes(h, [handler[h] EXCEPT !.pc = pc, !.status = linode.power])
      PROVE  Moves(h)
  <2> DEFINE r == [handler[h] EXCEPT !.pc = pc, !.status = linode.power]
  <2>1. /\ Becomes(h, r) /\ r.task = Of(h) /\ r.pc = pc /\ r.noted = handler[h].noted
        /\ r.result = "none" /\ r.status = linode.power /\ r.off = handler[h].off
    BY <1>1, <1>3 DEF HandlerRecord, Of
  <2>2. ~OfDisk(h)
    BY <1>1 DEF OfDisk, DiskVerbs, ConfigVerbs
  <2> HIDE DEF r
  <2>3. Move(h, r)
    BY <1>1, <2>1, <2>2, RestMove DEF CallSteps, Cold
  <2> QED
    BY <2>3, QuietMoves DEF StartConfig
<1> QED
  BY <1>2, <1>3 DEF StartConfig

LEMMA InspectMove ==
    ASSUME IInv, NEW h \in Handlers, Well', Inspect(h)
    PROVE  Moves(h)
<1>1. handler[h] \in HandlerRecord /\ handler[h].result = "none" /\ handler[h].pc = "inspect"
         /\ ~Fail(h) /\ ~OfDisk(h)
  BY HandlerFacts, FailShows, ConfigTask DEF Control, Inspect, At, OfDisk, DiskVerbs, ConfigVerbs
<1> DEFINE mine == CurrentBootedConfig = Of(h).on /\ handler[h].status = "running"
           off == Of(h).verb = "rewire" /\ mine
           reboot == mine /\ ~off /\ ~skip
           r == [handler[h] EXCEPT !.off = off, !.reboot = reboot,
                                   !.pc = IF off THEN "safe" ELSE "put"]
<1>2. Becomes(h, r)
  BY <1>1 DEF Inspect
<1>3. /\ r.task = Of(h) /\ r.pc = (IF off THEN "safe" ELSE "put") /\ r.noted = handler[h].noted
      /\ r.result = "none" /\ r.status = handler[h].status /\ r.off = off
  BY <1>1 DEF HandlerRecord, Of
<1>4. off => handler[h].status = "running"
  OBVIOUS
<1> HIDE DEF r, off
<1>5. Move(h, r)
  BY <1>1, <1>2, <1>3, <1>4, RestMove DEF CallSteps, Cold
<1> QED
  BY <1>5, QuietMoves DEF Inspect

LEMMA PutMove ==
    ASSUME IInv, NEW h \in Handlers, Well', Put(h)
    PROVE  Moves(h)
<1>1. handler[h].pc = "put" /\ linode \in LinodeRecord
  BY DEF Put, At, IInv, Typed
<1>2. Still /\ linode'.configs = linode.configs
  BY <1>1 DEF Put, Settings, Still, LinodeRecord
<1>3. \E r : Move(h, r)
  BY <1>1, GotoMove, DoMove DEF Put, CallSteps
<1> QED
  BY <1>2, <1>3 DEF Moves

LEMMA ApplyMove ==
    ASSUME IInv, NEW h \in Handlers, Well', Apply(h)
    PROVE  Moves(h)
<1>1. handler[h] \in HandlerRecord /\ handler[h].result = "none" /\ handler[h].pc = "apply"
         /\ ~OfDisk(h)
  BY HandlerFacts, ConfigTask DEF Control, Apply, At, OfDisk, DiskVerbs, ConfigVerbs
<1>2. CASE Manages(h)
  <2> DEFINE r == [handler[h] EXCEPT !.pc = "decide", !.status = linode.power]
  <2>1. /\ Becomes(h, r) /\ r.task = Of(h) /\ r.pc = "decide" /\ r.noted = handler[h].noted
        /\ r.result = "none" /\ r.status = linode.power /\ r.off = handler[h].off
    BY <1>1, <1>2 DEF Apply, HandlerRecord, Of
  <2> HIDE DEF r
  <2>2. Move(h, r)
    BY <1>1, <2>1, RestMove DEF CallSteps, Cold
  <2> QED
    BY <2>2, QuietMoves DEF Apply
<1>3. CASE ~Manages(h)
  <2>1. ~Booter(Of(h)) /\ ~Stopper(Of(h))
    BY <1>3 DEF Manages, Booter, Stopper
  <2>2. \E r : Move(h, r)
    BY <1>1, <1>3, <2>1, EndMove DEF Apply, CallSteps
  <2> QED
    BY <2>2, QuietMoves DEF Apply
<1> QED
  BY <1>2, <1>3

LEMMA DecideMove ==
    ASSUME IInv, NEW h \in Handlers, Well', Decide(h)
    PROVE  Moves(h)
<1>1. handler[h] \in HandlerRecord /\ handler[h].result = "none" /\ handler[h].pc = "decide"
         /\ ~OfDisk(h) /\ Of(h).verb \in Updates /\ Of(h).on # Nothing
  <2>1. handler[h].pc = "decide"
    BY DEF Decide, At
  <2> QED
    BY <2>1, ConfigTask, PowerAssumption DEF OfDisk, DiskVerbs, ConfigVerbs, PlacesOf, Updates
<1> DEFINE q == [handler[h] EXCEPT !.current = CurrentBootedConfig]
           runs == [q EXCEPT !.pc = "running"]
           boots == Calling(q, "boot", Of(h).on, "end")
           ends == [handler[h] EXCEPT !.pc = "end", !.result = "ok"]
           mine == CurrentBootedConfig = Of(h).on
           booted == IsBooted(handler[h].status)
<1>2. \/ Becomes(h, runs)
      \/ Becomes(h, boots) /\ Booter(Of(h))
      \/ Becomes(h, ends) /\ (Booter(Of(h)) => mine) /\ (Stopper(Of(h)) => ~(booted /\ mine))
  BY <1>1 DEF Decide, Booter, Stopper, End
<1>3. ~Owing(handler[h]) /\ ~Doomed(handler[h]) /\ ~Awaits(handler[h], Last)
  BY <1>1 DEF Owing, Doomed, Awaits, CallSteps
<1>4. mine => On
  BY <1>1 DEF CurrentBootedConfig, IsBooted, On
<1>5. CASE Becomes(h, runs)
  <2>1. /\ runs.task = Of(h) /\ runs.pc = "running" /\ runs.noted = handler[h].noted
        /\ runs.result = "none" /\ runs.status = handler[h].status /\ runs.off = handler[h].off
    BY <1>1 DEF HandlerRecord, Of
  <2> HIDE DEF runs
  <2>2. Move(h, runs)
    BY <1>1, <1>3, <1>5, <2>1 DEF Move, CallSteps, Cold
  <2> QED
    BY <2>2, QuietMoves DEF Decide
<1>6. CASE Becomes(h, boots) /\ Booter(Of(h))
  <2>1. /\ boots.task = Of(h) /\ boots.pc = "watch" /\ boots.noted = handler[h].noted
        /\ boots.result = "none" /\ boots.status = handler[h].status
    BY <1>1 DEF Calling, HandlerRecord, Of
  <2> HIDE DEF boots
  <2>2. Move(h, boots)
    BY <1>1, <1>3, <1>6, <2>1 DEF Move
  <2> QED
    BY <2>2, QuietMoves DEF Decide
<1>7. CASE Becomes(h, ends) /\ (Booter(Of(h)) => mine) /\ (Stopper(Of(h)) => ~(booted /\ mine))
  <2>1. /\ ends.task = Of(h) /\ ends.pc = "end" /\ ends.noted = handler[h].noted
        /\ ends.status = handler[h].status /\ ends.off = handler[h].off
    BY <1>1 DEF HandlerRecord, Of
  <2> HIDE DEF ends
  <2>2. Move(h, ends)
    BY <1>1, <1>3, <1>4, <1>7, <2>1 DEF Move, CallSteps, Cold
  <2> QED
    BY <2>2, QuietMoves DEF Decide
<1> QED
  BY <1>2, <1>5, <1>6, <1>7

LEMMA OtherMoves ==
    ASSUME IInv, NEW h \in Handlers, Well',
           \/ Running(h) \/ Removal(h) \/ DropConfig(h) \/ StartReboot(h) \/ Rebooted(h)
    PROVE  Moves(h)
<1>1. CASE Running(h)
  <2>1. \E r : Move(h, r)
    BY <1>1, DoMove DEF Running, At, CallSteps
  <2> QED
    BY <1>1, <2>1, QuietMoves DEF Running
<1>2. CASE Removal(h)
  <2>1. \E r : Move(h, r)
    BY <1>2, DoMove, GotoMove DEF Removal, At, CallSteps
  <2> QED
    BY <1>2, <2>1, QuietMoves DEF Removal
<1>3. CASE DropConfig(h)
  <2>1. handler[h].pc = "drop" /\ linode \in LinodeRecord
    BY <1>3 DEF DropConfig, At, IInv, Typed
  <2>2. Of(h).verb = "remove"
    BY <2>1, ConfigTask DEF PlacesOf, ConfigVerbs
  <2>3. Still
    BY <1>3, <2>1 DEF DropConfig, Settings, Still, LinodeRecord
  <2>4. \E r : Move(h, r)
    BY <1>3, <2>1, <2>2, EndMove DEF DropConfig, Booter, Stopper, Updates, CallSteps
  <2> QED
    BY <2>2, <2>3, <2>4 DEF Moves
<1>4. CASE StartReboot(h)
  <2>1. handler[h].pc = "start" /\ ~Booter(Of(h)) /\ ~Stopper(Of(h))
    BY <1>4 DEF StartReboot, At, Booter, Stopper, Updates
  <2>2. \E r : Move(h, r)
    BY <1>4, <2>1, DoMove, EndMove DEF StartReboot, CallSteps
  <2> QED
    BY <1>4, <2>2, QuietMoves DEF StartReboot
<1>5. CASE Rebooted(h)
  <2>1. handler[h].pc = "rebooted"
    BY <1>5 DEF Rebooted, At
  <2>2. Of(h).verb = "reboot"
    BY <2>1, HandlerFacts
       DEF Control, CallSteps, PlacesOf, HandlerRecord, TaskRecord, DiskVerbs, ConfigVerbs, Of
  <2>3. \E r : Move(h, r)
    BY <1>5, <2>1, <2>2, EndMove DEF Rebooted, Booter, Stopper, Updates, CallSteps
  <2> QED
    BY <1>5, <2>3, QuietMoves DEF Rebooted
<1> QED
  BY <1>1, <1>2, <1>3, <1>4, <1>5

LEMMA WatchMove ==
    ASSUME IInv, NEW h \in Handlers, Watch(h)
    PROVE  Moves(h)
<1> DEFINE r == [handler[h] EXCEPT !.pc = "request", !.watch = Len(events)]
<1>1. handler[h] \in HandlerRecord /\ handler[h].pc = "watch" /\ handler[h].result = "none"
  BY HandlerFacts DEF Watch, At, Control, CallSteps
<1>2. /\ Becomes(h, r) /\ r.task = Of(h) /\ r.pc = "request" /\ r.noted = handler[h].noted
      /\ r.result = "none" /\ r.status = handler[h].status /\ r.off = handler[h].off
      /\ r.call = handler[h].call
  BY <1>1 DEF Watch, HandlerRecord, Of
<1> HIDE DEF r
<1>3. ~Doomed(handler[h]) /\ ~Awaits(handler[h], Last) /\ (Owing(handler[h]) => Owing(r))
  BY <1>1, <1>2 DEF Doomed, Awaits, Owing, CallSteps, Of
<1>4. Move(h, r)
  BY <1>1, <1>2, <1>3 DEF Move, Cold, CallSteps
<1> QED
  BY <1>4, QuietMoves DEF Watch

LEMMA DiskMoves ==
    ASSUME IInv, NEW h \in Handlers, Well', Operate(h) \/ CheckSize(h) \/ ListDisks(h)
    PROVE  Moves(h)
<1>1. /\ handler[h] \in HandlerRecord /\ handler[h].result = "none" /\ Of(h).verb \in DiskVerbs
      /\ handler[h].pc \in {"operate", "check", "list"} /\ ~handler[h].off
  <2>1. handler[h].pc \in {"operate", "check", "list"}
    BY DEF Operate, CheckSize, ListDisks, At
  <2> QED
    BY <2>1, HandlerFacts
       DEF Control, HandlerRecord, TaskRecord, PlacesOf, CallSteps, DiskVerbs, ConfigVerbs, Of
<1>2. /\ ~Doomed(handler[h]) /\ ~Awaits(handler[h], Last) /\ ~Booter(Of(h)) /\ ~Stopper(Of(h))
      /\ ~Fail(h)
  BY <1>1, FailShows DEF Doomed, Awaits, Booter, Stopper, Updates, DiskVerbs
<1>3. CASE Operate(h)
  <2>1. PICK action \in DiskActions : \E next : Do(h, action, Of(h).on, next)
    BY <1>3 DEF Operate, DiskActions
  <2>2. PICK next : Do(h, action, Of(h).on, next)
    BY <2>1
  <2> DEFINE r == Calling(handler[h], action, Of(h).on, next)
  <2>3. /\ Becomes(h, r) /\ r.task = Of(h) /\ r.pc = "watch" /\ r.call.action = action
        /\ r.status = handler[h].status /\ r.noted = handler[h].noted /\ r.off = handler[h].off
    BY <1>1, <2>2 DEF Do, Calling, HandlerRecord, Of
  <2> HIDE DEF r
  <2>4. Owing(handler[h]) => Owing(r)
    BY <1>1, <2>3 DEF Owing, CallSteps, Of
  <2>5. Move(h, r)
    BY <1>1, <1>2, <2>1, <2>3, <2>4 DEF Move, Cold, CallSteps, DiskActions
  <2> QED
    BY <1>3, <2>5, QuietMoves DEF Operate
<1>4. CASE CheckSize(h)
  <2> DEFINE r == [handler[h] EXCEPT !.pc = "list"]
  <2>1. /\ Becomes(h, r) /\ r.task = Of(h) /\ r.pc = "list" /\ r.status = handler[h].status
        /\ r.noted = handler[h].noted /\ r.off = handler[h].off
    BY <1>1, <1>2, <1>4 DEF CheckSize, Goto, HandlerRecord, Of
  <2> HIDE DEF r
  <2>2. Owing(handler[h]) => Owing(r)
    BY <1>1, <2>1 DEF Owing, Of
  <2>3. Move(h, r)
    BY <1>1, <1>2, <2>1, <2>2 DEF Move, Cold, CallSteps
  <2> QED
    BY <1>4, <2>3, QuietMoves DEF CheckSize
<1>5. CASE ListDisks(h) /\ Left # {} /\ handler[h].status = "running"
  <2> DEFINE r == Calling(handler[h], "boot", Nothing, "end")
  <2>1. /\ Becomes(h, r) /\ r.task = Of(h) /\ r.pc = "watch" /\ r.call.action = "boot"
        /\ r.status = handler[h].status /\ r.noted = handler[h].noted
    BY <1>1, <1>5 DEF ListDisks, Do, Calling, HandlerRecord, Of
  <2> HIDE DEF r
  <2>2. Owing(r)
    BY <1>1, <1>5, <2>1 DEF Owing
  <2>3. Move(h, r)
    BY <1>1, <1>2, <1>5, <2>1, <2>2 DEF Move, Cold
  <2> QED
    BY <1>5, <2>3, QuietMoves DEF ListDisks
<1>6. CASE ListDisks(h) /\ ~(Left # {} /\ handler[h].status = "running")
  <2> DEFINE r == [handler[h] EXCEPT !.pc = "end",
                                     !.result = IF handler[h].noted THEN "error" ELSE "ok"]
  <2>1. /\ Becomes(h, r) /\ r.task = Of(h) /\ r.pc = "end" /\ r.status = handler[h].status
        /\ r.noted = handler[h].noted /\ r.off = handler[h].off
    BY <1>1, <1>6 DEF ListDisks, Return, End, HandlerRecord, Of
  <2> HIDE DEF r
  <2>2. Owing(handler[h]) => Left = {}
    BY <1>1, <1>6 DEF Owing
  <2>3. Move(h, r)
    BY <1>1, <1>2, <2>1, <2>2 DEF Move, Cold, CallSteps
  <2> QED
    BY <1>6, <2>3, QuietMoves DEF ListDisks
<1> QED
  BY <1>3, <1>4, <1>5, <1>6

\* A handler that has failed to boot without looking at it goes on; it is not Plain.
LEMMA FailCallMove ==
    ASSUME IInv, NEW h \in Handlers, Well', FailCall(h), handler[h].pc \in CallSteps
    PROVE  \E r : Move(h, r)
<1>1. handler[h] \in HandlerRecord /\ handler[h].result = "none"
         /\ handler[h].task.booted \in {"unset", "true", "false"}
  BY HandlerFacts DEF Control, CallSteps, HandlerRecord, TaskRecord
<1>2. Ignores(h) /\ Goto(h, "apply")
  <2>1. CASE handler[h].call.action = "disk_delete"
    BY <2>1, FailShows DEF FailCall
  <2>2. CASE handler[h].call.action # "disk_delete"
    BY <2>2, FailShows DEF FailCall
  <2> QED
    BY <2>1, <2>2
<1>3. Of(h).verb = "rewire" /\ Of(h).booted = "unset"
  BY <1>2, CallFacts, HandlerFacts DEF Ignores, DiskCalls, ConfigCalls, Makes, Control, Of
<1> DEFINE r == [handler[h] EXCEPT !.pc = "apply"]
<1>4. /\ Becomes(h, r) /\ r.task = Of(h) /\ r.pc = "apply" /\ r.noted = handler[h].noted
      /\ r.result = "none" /\ r.status = handler[h].status /\ r.off = handler[h].off
  BY <1>1, <1>2 DEF Goto, HandlerRecord, Of
<1> HIDE DEF r
<1>5. ~Plain(Of(h)) /\ ~Owing(handler[h]) /\ ~OfDisk(h)
  BY <1>3 DEF Plain, Owing, OfDisk, DiskVerbs, Of
<1>6. handler[h].pc # "end"
  BY DEF CallSteps
<1>7. Move(h, r)
  BY <1>4, <1>5, <1>6 DEF Move, Cold, CallSteps
<1> QED
  BY <1>7

\* A handler does not go on while the job it waits for runs.
LEMMA AwaitedRuns ==
    ASSUME IInv, NEW h \in Handlers, Await(h), Busy
    PROVE  ~Awaits(handler[h], Last)
<1> SUFFICES ASSUME Awaits(handler[h], Last) PROVE FALSE
  OBVIOUS
<1>1. linode.job = Len(events) /\ Last.status = "started" /\ linode.job # 0
  BY DEF IInv, JobInv, Busy
<1>2. Len(events) \in DOMAIN events /\ DOMAIN events = 1 .. Len(events) /\ Len(events) \in Nat
  BY <1>1 DEF IInv, Typed
<1>3. Len(events) \in Polled(h)
  BY <1>2 DEF Polled, Awaits, Last, DiskActions
<1>4. LatestOf(Polled(h)) \in DOMAIN events /\ \A j \in Polled(h) : j <= LatestOf(Polled(h))
  <2>1. Polled(h) \in SUBSET (DOMAIN events) /\ Polled(h) # {}
    BY <1>3 DEF Polled
  <2> QED
    BY <2>1, LatestIsLast DEF IInv
<1>5. LatestOf(Polled(h)) = Len(events)
  BY <1>2, <1>3, <1>4
<1> QED
  BY <1>1, <1>5 DEF Await, EventOf, Last

LEMMA DoomedFails ==
    ASSUME IInv, NEW h \in Handlers, At(h, "await"), Doomed(handler[h])
    PROVE  EventOf(h).status = "failed"
<1>1. PICK i \in DOMAIN events :
         /\ i > handler[h].watch /\ events[i].action = handler[h].call.action
         /\ events[i].status = "failed" /\ LastOf(i, Boots)
  BY DEF Doomed
<1>2. handler[h].call.action \in Boots
  BY DEF Doomed
<1>3. i \in Polled(h)
  BY <1>1, <1>2 DEF Polled, Boots
<1>4. LatestOf(Polled(h)) \in Polled(h) /\ i <= LatestOf(Polled(h))
  <2>1. Polled(h) \in SUBSET (DOMAIN events) /\ Polled(h) # {}
    BY <1>3 DEF Polled
  <2> QED
    BY <1>3, <2>1, LatestIsLast DEF IInv
<1>5. LatestOf(Polled(h)) = i
  <2>1. LatestOf(Polled(h)) \in DOMAIN events /\ events[LatestOf(Polled(h))].action \in Boots
    BY <1>2, <1>4 DEF Polled
  <2>2. ~(LatestOf(Polled(h)) > i)
    BY <1>1, <2>1 DEF LastOf
  <2>3. i \in Nat /\ LatestOf(Polled(h)) \in Nat
    BY <2>1 DEF IInv, Typed
  <2> QED
    BY <1>4, <2>2, <2>3
<1> QED
  BY <1>1, <1>5 DEF EventOf

LEMMA AwaitMove ==
    ASSUME IInv, NEW h \in Handlers, Well', Await(h)
    PROVE  Moves(h)
<1> DEFINE next == handler[h].next
<1>1. handler[h] \in HandlerRecord /\ handler[h].result = "none" /\ handler[h].pc = "await"
         /\ handler[h].pc \in CallSteps
  BY HandlerFacts DEF Await, At, Control, CallSteps
<1>2. CASE EventOf(h).status # "finished"
  BY <1>1, <1>2, FailCallMove, QuietMoves DEF Await
<1>3. CASE EventOf(h).status = "finished"
  <2>1. Return(h, next)
    BY <1>3 DEF Await
  <2>2. ~Doomed(handler[h]) /\ ~(Busy /\ Awaits(handler[h], Last))
    BY <1>3, AwaitedRuns, DoomedFails DEF Await
  <2>3. CASE next = "end"
    <3> DEFINE r == [handler[h] EXCEPT !.pc = "end", !.result = "ok"]
    <3>1. Becomes(h, r)
      BY <2>1, <2>3, FailShows DEF Return, Fail, End
    <3>2. /\ r.task = Of(h) /\ r.pc = "end" /\ r.noted = handler[h].noted
          /\ r.status = handler[h].status /\ r.off = handler[h].off
      BY <1>1 DEF HandlerRecord, Of
    <3> HIDE DEF r
    <3>3. /\ Of(h).verb \in DiskVerbs => handler[h].call.action = "boot"
          /\ Booter(Of(h)) => handler[h].call.action \in Boots
          /\ Stopper(Of(h)) => handler[h].call.action = "shutdown"
      BY <1>1, <2>3, CallFacts
         DEF DiskCalls, ConfigCalls, Makes, Booter, Stopper, Updates, DiskVerbs, Boots, Of
    <3>4. ~Owing(handler[h])
      BY <1>1, <3>3 DEF Owing, DiskActions, Of
    <3>5. Move(h, r)
      BY <1>1, <1>3, <2>2, <3>1, <3>2, <3>3, <3>4 DEF Move, Cold, CallSteps, Launched, Await
    <3> QED
      BY <3>5, QuietMoves DEF Await
  <2>4. CASE next # "end"
    <3> DEFINE pc == IF next = "unlooked" THEN "apply" ELSE next
               r == [handler[h] EXCEPT !.pc = pc]
    <3>1. Becomes(h, r)
      BY <2>1, <2>4 DEF Return, Goto
    <3>2. /\ r.task = Of(h) /\ r.pc = pc /\ r.noted = handler[h].noted /\ r.result = "none"
          /\ r.status = handler[h].status /\ r.off = handler[h].off
      BY <1>1 DEF HandlerRecord, Of
    <3>3. pc \in {"apply", "operate", "put", "check", "list", "drop", "rebooted"}
      BY <1>1, <2>4, CallFacts DEF DiskCalls, ConfigCalls, Makes
    <3>4. Of(h).verb \in DiskVerbs => pc \in {"operate", "check", "list"}
      BY <1>1, <2>4, CallFacts DEF DiskCalls, ConfigCalls, Makes, DiskVerbs, Of
    <3> HIDE DEF r, pc
    <3>5. Owing(handler[h]) => Owing(r)
      BY <3>2, <3>4 DEF Owing, Of
    <3>6. Move(h, r)
      BY <1>1, <2>2, <3>1, <3>2, <3>3, <3>5 DEF Move, Cold, CallSteps
    <3> QED
      BY <3>6, QuietMoves DEF Await
  <2> QED
    BY <2>3, <2>4
<1> QED
  BY <1>2, <1>3

LEMMA RefusedMove ==
    ASSUME IInv, NEW h \in Handlers, Well', Request(h),
           ~Accepts(handler[h].call.action, handler[h].call.on)
    PROVE  Moves(h)
<1>1. handler[h].pc \in CallSteps /\ FailCall(h) /\ UNCHANGED <<linode, events, wasOn>>
  BY DEF Request, At, CallSteps, API, Settings
<1>2. \E r : Move(h, r)
  BY <1>1, FailCallMove
<1> QED
  BY <1>1, <1>2 DEF Moves, Still

LEMMA CallFailsMove ==
    ASSUME IInv, NEW h \in Handlers, Well', CallFails(h)
    PROVE  Moves(h)
<1>1. UNCHANGED <<linode, events, wasOn>>
  BY DEF CallFails, API, Settings
<1>2. \/ handler[h].pc \in CallSteps /\ FailCall(h)
      \/ handler[h].pc = "inspect" /\ Goto(h, "put")
  BY FailShows DEF CallFails, Calls, CallSteps, At
<1>3. \E r : Move(h, r)
  BY <1>2, FailCallMove, GotoMove DEF CallSteps
<1> QED
  BY <1>1, <1>3 DEF Moves, Still

\* A request that is accepted starts a job.
Accepted(h) == Request(h) /\ Accepts(handler[h].call.action, handler[h].call.on)

LEMMA WellSteps ==
    ASSUME IInv, Next, Well'
    PROVE  EndJob \/ \E h \in Handlers : Accepted(h) \/ Moves(h)
<1>1. ASSUME NEW h \in Handlers, Step(h) PROVE Accepted(h) \/ Moves(h)
  <2>1. CASE Request(h)
    BY <2>1, RefusedMove DEF Accepted
  <2>2. ~TimesOut(h)
    BY FailShows DEF TimesOut
  <2> QED
    BY <1>1, <2>1, <2>2, WatchMove, AwaitMove, StatusMoves, DiskMoves, StartConfigMove, InspectMove,
       PutMove, ApplyMove, DecideMove, OtherMoves
    DEF Step
<1> QED
  BY <1>1, CallFailsMove DEF Next

-----------------------------------------------------------------------------
(* What the three kinds of steps change. *)

LEMMA MoveEffect ==
    ASSUME IInv, NEW h \in Handlers, NEW r, Still, Move(h, r)
    PROVE  /\ handler'[h] = r /\ \A g \in Handlers : g # h => handler'[g] = handler[g]
           /\ \A g \in Handlers : Of(g)' = Of(g) /\ (handler'[g].pc = "await" => handler[g].pc = "await")
           /\ Busy' = Busy /\ Left' = Left /\ On' = On /\ Last' = Last
           /\ BootEvents' = BootEvents
           /\ (\A i : LastOf(i, Boots)' <=> LastOf(i, Boots))
           /\ CurrentBootedConfig' = CurrentBootedConfig
<1>1. handler'[h] = r /\ \A g \in Handlers : g # h => handler'[g] = handler[g]
  BY DEF IInv, Typed, Becomes, Move
<1>2. \A g \in Handlers : Of(g)' = Of(g) /\ (handler'[g].pc = "await" => handler[g].pc = "await")
  BY <1>1 DEF Move, Of
<1>3. Busy' = Busy /\ Left' = Left /\ On' = On /\ Last' = Last /\ BootEvents' = BootEvents
         /\ (\A i : LastOf(i, Boots)' <=> LastOf(i, Boots))
  BY DEF Still, Busy, Left, On, Last, BootEvents, LastOf
<1>4. CurrentBootedConfig' = CurrentBootedConfig
  BY <1>3 DEF CurrentBootedConfig, Still
<1> QED
  BY <1>1, <1>2, <1>3, <1>4

\* What is well was.
LEMMA WellBack ==
    ASSUME IInv, Next, Well'
    PROVE  Well
<1>1. CASE EndJob
  BY <1>1 DEF EndJob, Well
<1>2. ASSUME NEW h \in Handlers, Accepted(h) PROVE Well
  <2>1. Becomes(h, [handler[h] EXCEPT !.pc = "await"]) /\ handler[h] \in HandlerRecord
    BY <1>2, HandlerFacts DEF Accepted, Request, Goto
  <2>2. /\ [handler[h] EXCEPT !.pc = "await"].result = handler[h].result
        /\ [handler[h] EXCEPT !.pc = "await"].noted = handler[h].noted
    BY <2>1 DEF HandlerRecord
  <2>3. \A g \in Handlers : handler'[g].result = handler[g].result /\ handler'[g].noted = handler[g].noted
    BY <2>1, <2>2 DEF IInv, Typed, Becomes
  <2> QED
    BY <2>3 DEF Well
<1>3. ASSUME NEW h \in Handlers, Moves(h) PROVE Well
  <2>1. PICK r : Move(h, r)
    BY <1>3 DEF Moves
  <2>2. handler'[h] = r /\ \A g \in Handlers : g # h => handler'[g] = handler[g]
    BY <2>1 DEF IInv, Typed, Becomes, Move
  <2>3. handler[h].result # "error"
    BY <2>1, HandlerFacts DEF Move, Control
  <2> QED
    BY <2>1, <2>2, <2>3, HandlerFacts DEF Well, Move, HandlerRecord
<1> QED
  BY <1>1, <1>2, <1>3, WellSteps

-----------------------------------------------------------------------------
(* The moves keep the invariant. *)

LEMMA PlainTasks ==
    /\ (\A g \in Handlers : Neutral(Of(g))) => \A g \in Handlers : Plain(Of(g))
    /\ \A h \in Handlers : Alone(h) /\ (Booter(Of(h)) \/ Stopper(Of(h)))
          => \A g \in Handlers : Plain(Of(g))
<1>1. \A t : Neutral(t) \/ Booter(t) \/ Stopper(t) => Plain(t)
  BY DEF Neutral, Booter, Stopper, Plain, DiskVerbs
<1>2. \A g \in Handlers : OfDisk(g) => Plain(Of(g))
  BY DEF OfDisk, Plain, DiskVerbs
<1> QED
  BY <1>1, <1>2 DEF Alone

LEMMA ColdMove ==
    ASSUME IInv, ColdInv, NEW h \in Handlers, NEW r, Still, Move(h, r)
    PROVE  ColdInv'
<1> SUFFICES ASSUME ~wasOn, \A g \in Handlers : ~Booter(Of(g))
    PROVE  linode.power = "offline" /\ \A g \in Handlers : Cold(handler'[g])
  BY MoveEffect DEF ColdInv, Still, Cold
<1>1. linode.power = "offline" /\ \A g \in Handlers : Cold(handler[g])
  BY DEF ColdInv
<1>2. Cold(r)
  BY <1>1 DEF Move
<1> QED
  BY <1>1, <1>2, MoveEffect

LEMMA WatchedMove ==
    ASSUME IInv, WatchedInv, NEW h \in Handlers, NEW r, Still, Move(h, r)
    PROVE  WatchedInv'
<1> SUFFICES ASSUME Busy, \A g \in Handlers : Plain(Of(g))
    PROVE  \E g \in Handlers : Awaits(handler'[g], Last)
  BY MoveEffect DEF WatchedInv, Still, Awaits
<1>1. PICK g \in Handlers : Awaits(handler[g], Last)
  BY DEF WatchedInv
<1>2. g # h
  BY <1>1 DEF Move
<1> QED
  BY <1>1, <1>2, MoveEffect

LEMMA WarmMove ==
    ASSUME IInv, Warm, NEW h \in Handlers, NEW r, Still, Move(h, r), Plain(Of(h))
    PROVE  Warm'
<1> SUFFICES ASSUME Left # {}, ~On PROVE \E g \in Handlers : (Owing(handler[g]) \/ Doomed(handler[g]))'
  BY MoveEffect DEF Warm
<1>1. PICK g \in Handlers : Owing(handler[g]) \/ Doomed(handler[g])
  BY DEF Warm
<1>2. \A q : (Owing(q)' <=> Owing(q)) /\ (Doomed(q) => Doomed(q)')
  BY MoveEffect DEF Owing, Doomed, Still
<1>3. Owing(handler'[g]) \/ Doomed(handler'[g])
  BY <1>1, MoveEffect DEF Move
<1> QED
  BY <1>2, <1>3, MoveEffect DEF Owing, Doomed, Still

\* The latest boot event is that of the config that is booted.
LEMMA LatestTells ==
    ASSUME IInv, EventsTell, BootEvents # {}
    PROVE  events[LatestOf(BootEvents)].on = linode.booted
<1>1. BootEvents \in SUBSET (DOMAIN events)
  BY DEF BootEvents
<1>2. LatestOf(BootEvents) \in BootEvents /\ \A j \in BootEvents : j <= LatestOf(BootEvents)
  BY <1>1, LatestIsLast DEF IInv
<1>3. LastOf(LatestOf(BootEvents), Boots)
  <2> SUFFICES ASSUME NEW j \in DOMAIN events, j > LatestOf(BootEvents), events[j].action \in Boots
      PROVE  FALSE
    BY DEF LastOf
  <2>1. j \in BootEvents
    BY DEF BootEvents, Boots
  <2>2. j <= LatestOf(BootEvents) /\ j \in Nat /\ LatestOf(BootEvents) \in Nat
    BY <1>1, <1>2, <2>1 DEF IInv, Typed
  <2> QED
    BY <2>2
<1> QED
  BY <1>1, <1>2, <1>3 DEF EventsTell, BootEvents, Boots

\* A config that is found booted is.
LEMMA CurrentTells ==
    ASSUME IInv, EventsTell, NEW c \in Configs
    PROVE  /\ CurrentBootedConfig = c => linode.booted = c /\ On
           /\ IsBooted(linode.power) /\ CurrentBootedConfig # c
                 => linode.booted # c \/ BootEvents = {}
<1>1. c # Nothing
  BY PowerAssumption
<1> QED
  BY <1>1, LatestTells DEF CurrentBootedConfig, IsBooted, On

LEMMA LaunchMove ==
    ASSUME IInv, EventsTell, LaunchInv, NEW h \in Handlers, NEW r, Still, Move(h, r)
    PROVE  LaunchInv'
<1> SUFFICES ASSUME NEW g \in Handlers, Alone(g), Booter(Of(g)), Launched(handler'[g])
    PROVE  linode.booted = Of(g).on /\ Warm'
  <2>1. \A g \in Handlers : /\ (Alone(g)' => Alone(g)) /\ Of(g)' = Of(g)
                            /\ (Launched(handler[g])' => Launched(handler'[g]))
    BY MoveEffect DEF Alone, OfDisk, Launched
  <2> QED
    BY <2>1 DEF LaunchInv, Still
<1>1. Plain(Of(h))
  BY PlainTasks
<1>2. CASE Launched(handler[g])
  BY <1>1, <1>2, WarmMove DEF LaunchInv
<1>3. CASE ~Launched(handler[g])
  <2>1. g = h /\ r.result = "ok"
    BY <1>3, MoveEffect DEF Launched, Move
  <2>2. On /\ CurrentBootedConfig = Of(h).on
    BY <1>3, <2>1 DEF Move
  <2>3. Of(h).on \in Configs
    BY <2>1, HandlerFacts DEF Booter, Updates, HandlerRecord, TaskRecord, DiskVerbs, Of
  <2>4. linode.booted = Of(h).on /\ Warm'
    BY <2>2, <2>3, CurrentTells, MoveEffect DEF Warm
  <2> QED
    BY <2>1, <2>4
<1> QED
  BY <1>2, <1>3

\* Unless a disk handler has found the Linode running, it only works on its disk.
LEMMA OnlyDisks ==
    ASSUME IInv, ~Interlude, NEW g \in Handlers, OfDisk(g), handler[g].pc \in CallSteps
    PROVE  handler[g].call.action \in DiskActions
  BY CallFacts DEF Interlude, OfDisk, DiskCalls, Makes, DiskActions, DiskVerbs, Of

\* A stopper's shutdown that has finished is the last that was done to the power.
LEMMA StoppedTells ==
    ASSUME IInv, EventsTell, NEW h \in Handlers, handler[h].call.action = "shutdown",
           \A i \in DOMAIN events : i > 1 => events[i].action \notin Boots,
           Polled(h) # {}, EventOf(h).status = "finished"
    PROVE  linode.power = "offline"
<1> DEFINE i == LatestOf(Polled(h))
<1>1. Polled(h) \in SUBSET (DOMAIN events)
  BY DEF Polled
<1>2. i \in Polled(h) /\ \A j \in Polled(h) : j <= i
  BY <1>1, LatestIsLast DEF IInv
<1>3. /\ i \in DOMAIN events /\ events[i].action = "shutdown" /\ events[i].status = "finished"
      /\ i > handler[h].watch /\ i \in Nat /\ handler[h].watch \in Nat /\ DOMAIN events \subseteq Nat
      /\ i >= 1
  <2>1. i \in DOMAIN events /\ i > handler[h].watch /\ events[i].action = "shutdown"
    BY <1>1, <1>2 DEF Polled
  <2>2. events[i].status = "finished"
    BY DEF EventOf
  <2>3. DOMAIN events = 1 .. Len(events) /\ Len(events) \in Nat
    BY DEF IInv, Typed
  <2>4. handler[h].watch \in Nat
    BY HandlerFacts DEF HandlerRecord
  <2> HIDE DEF i
  <2> QED
    BY <2>1, <2>2, <2>3, <2>4
<1> HIDE DEF i
<1>4. LastOf(i, PowerActions)
  <2> SUFFICES ASSUME NEW j \in DOMAIN events, j > i, events[j].action \in PowerActions
      PROVE  FALSE
    BY DEF LastOf
  <2>1. j \in Nat /\ j > 1 /\ j > handler[h].watch
    BY <1>3
  <2>2. events[j].action = "shutdown"
    BY <2>1 DEF PowerActions
  <2>3. j \in Polled(h)
    BY <2>1, <2>2 DEF Polled
  <2> QED
    BY <1>2, <1>3, <2>1, <2>3 DEF i
<1> QED
  BY <1>3, <1>4 DEF EventsTell

LEMMA StopMove ==
    ASSUME IInv, EventsTell, WatchedInv, StopInv, NEW h \in Handlers, NEW r, Still, Move(h, r)
    PROVE  StopInv'
<1>1. Interlude => Interlude'
  BY MoveEffect DEF Interlude, OfDisk, Move
<1> SUFFICES ASSUME ~Interlude, NEW g \in Handlers, Alone(g), Stopper(Of(g))
    PROVE  /\ handler'[g].pc = "decide" => handler'[g].status = linode.power
           /\ handler'[g].result = "ok" =>
                 linode.power = "offline" \/ linode.booted # Of(g).on \/ BootEvents = {}
           /\ \A i \in DOMAIN events : i > 1 => events[i].action \notin Boots
  <2>1. \A g \in Handlers : (Alone(g)' => Alone(g)) /\ Of(g)' = Of(g)
    BY MoveEffect DEF Alone, OfDisk
  <2> QED
    BY <1>1, <2>1, MoveEffect DEF StopInv, Still, At
<1>2. /\ handler[g].pc = "decide" => handler[g].status = linode.power
      /\ handler[g].result = "ok" =>
            linode.power = "offline" \/ linode.booted # Of(g).on \/ BootEvents = {}
      /\ \A i \in DOMAIN events : i > 1 => events[i].action \notin Boots
  BY DEF StopInv, At
<1>3. CASE g # h
  BY <1>2, <1>3, MoveEffect
<1>4. CASE g = h
  <2>1. r.pc = "decide" => r.status = linode.power
    BY <1>4 DEF Move
  <2>2. Of(h).on \in Configs
    BY <1>4, HandlerFacts DEF Stopper, Updates, HandlerRecord, TaskRecord, DiskVerbs, Of
  <2>3. ASSUME handler[h].pc = "decide", ~(IsBooted(handler[h].status) /\ CurrentBootedConfig = Of(h).on)
        PROVE  linode.power = "offline" \/ linode.booted # Of(h).on \/ BootEvents = {}
    <3>1. handler[h].status = linode.power /\ linode.power \in Powers
      BY <1>2, <1>4, <2>3 DEF IInv, Typed, LinodeRecord
    <3>2. CASE IsBooted(linode.power)
      BY <2>2, <2>3, <3>1, <3>2, CurrentTells
    <3>3. CASE linode.power = "shutting_down"
      <4>1. Busy /\ Last.action \notin DiskActions
        BY <3>3 DEF IInv, JobInv, DiskActions
      <4>2. PICK k \in Handlers : Awaits(handler[k], Last)
        BY <4>1, PlainTasks DEF WatchedInv
      <4>3. k # h /\ OfDisk(k) /\ handler[k].pc \in CallSteps
        BY <1>4, <2>3, <4>2 DEF Awaits, Alone, CallSteps
      <4> QED
        BY <4>1, <4>2, <4>3, OnlyDisks DEF Awaits
    <3> QED
      BY <3>1, <3>2, <3>3 DEF Powers, IsBooted
  <2>4. r.result = "ok" => linode.power = "offline" \/ linode.booted # Of(h).on \/ BootEvents = {}
    BY <1>2, <1>4, <2>3, StoppedTells DEF Move
  <2> QED
    BY <1>2, <1>4, <2>1, <2>4, MoveEffect
<1> QED
  BY <1>3, <1>4

-----------------------------------------------------------------------------
(* A request that is accepted. *)

LEMMA AcceptedEffect ==
    ASSUME IInv, NEW h \in Handlers, Accepted(h)
    PROVE  LET call == handler[h].call
               n == Len(events) + 1
           IN  /\ ~Busy /\ handler[h].pc = "request" /\ call.action \in Actions
               /\ handler'[h] = [handler[h] EXCEPT !.pc = "await"]
               /\ \A g \in Handlers : g # h => handler'[g] = handler[g]
               /\ wasOn' = wasOn
               /\ linode'.disks = linode.disks /\ linode'.configs = linode.configs
               /\ linode'.power = CASE call.action = "boot"     -> "booting"
                                    [] call.action = "reboot"   -> "rebooting"
                                    [] call.action = "shutdown" -> "shutting_down"
                                    [] OTHER                    -> linode.power
               /\ call.action \in Boots => linode'.booted = Target(call.on)
               /\ call.action \notin Boots => linode'.booted = linode.booted
               /\ linode'.job = n /\ n \in Nat /\ Len(events') = n /\ events'[n].action = call.action
               /\ events'[n].status = "started"
               /\ call.action \in Boots => events'[n].on = Target(call.on)
               /\ call.action \in DiskActions => events'[n].on = call.on
               /\ DOMAIN events \subseteq 1 .. n - 1 /\ n \in DOMAIN events'
               /\ \A i \in DOMAIN events : i \in DOMAIN events' /\ events'[i] = events[i]
               /\ \A i \in DOMAIN events' : i \in DOMAIN events \/ i = n
<1> DEFINE call == handler[h].call
           n == Len(events) + 1
           r == [handler[h] EXCEPT !.pc = "await"]
           about == IF call.action \in Boots THEN Target(call.on) ELSE call.on
<1>1. /\ StartJob(call.action, call.on) /\ Becomes(h, r) /\ ~Busy /\ wasOn' = wasOn
      /\ At(h, "request") /\ Accepts(call.action, call.on)
  BY DEF Accepted, Request, Goto, Settings
<1>2. /\ call.action \in Actions /\ call.on \in Subjects
      /\ call.action \in Boots => Target(call.on) \in Configs
  BY <1>1, AcceptedCall
<1>3. /\ linode'.job = n /\ Len(events') = n /\ events' \in Seq(EventRecord)
      /\ linode'.power = CASE call.action = "boot"     -> "booting"
                           [] call.action = "reboot"   -> "rebooting"
                           [] call.action = "shutdown" -> "shutting_down"
                           [] OTHER                    -> linode.power
      /\ linode'.disks = linode.disks /\ linode'.configs = linode.configs
      /\ events'[n] = [action |-> call.action, status |-> "started", on |-> about]
      /\ \A i \in DOMAIN events : i \in DOMAIN events' /\ events'[i] = events[i]
      /\ \A i \in DOMAIN events' : i \in DOMAIN events \/ i = n
  <2> HIDE DEF call
  <2> QED
    BY <1>1, <1>2, StartEffect DEF IInv
<1>4. linode'.booted = IF call.action \in Boots THEN Target(call.on) ELSE linode.booted
  <2>1. linode \in LinodeRecord
    BY DEF IInv, Typed
  <2>2. linode' = Started(call.action, call.on)
    BY <1>1 DEF StartJob
  <2> HIDE DEF call
  <2> QED
    BY <2>1, <2>2 DEF Started, LinodeRecord, Boots
<1>5. handler'[h] = r /\ \A g \in Handlers : g # h => handler'[g] = handler[g]
  BY <1>1 DEF IInv, Typed, Becomes
<1>6. DOMAIN events = 1 .. Len(events) /\ Len(events) \in Nat
  BY DEF IInv, Typed
<1>7. n \in Nat /\ DOMAIN events \subseteq 1 .. n - 1 /\ n \in DOMAIN events'
  BY <1>3, <1>6
<1>8. call.action \in DiskActions => call.action \notin Boots
  BY DEF DiskActions, Boots
<1>9. /\ events'[n].action = call.action /\ events'[n].status = "started" /\ events'[n].on = about
  BY <1>3
<1> HIDE DEF n, r
<1> QED
  BY <1>1, <1>2, <1>3, <1>4, <1>5, <1>7, <1>8, <1>9 DEF At, n, r

\* The handler goes on to wait for its job.
LEMMA AcceptedAwaits ==
    ASSUME IInv, NEW h \in Handlers, Accepted(h)
    PROVE  LET q == handler[h]
               r == handler'[h]
           IN  /\ r.pc = "await" /\ r.task = q.task /\ r.call = q.call /\ r.status = q.status
               /\ r.off = q.off /\ r.watch = q.watch /\ r.result = "none"
               /\ \A g \in Handlers : Of(g)' = Of(g) /\ handler'[g].status = handler[g].status
               /\ Left' = Left /\ Busy' /\ Last'.action = q.call.action /\ Awaits(handler[h], Last)'
<1>1. handler[h] \in HandlerRecord /\ handler[h].result = "none" /\ handler[h].pc = "request"
         /\ handler[h].watch <= Len(events) /\ handler[h].watch \in Nat /\ Len(events) \in Nat
  <2>1. handler[h].pc = "request"
    BY AcceptedEffect
  <2>2. handler[h] \in HandlerRecord /\ Control(handler[h])
    BY HandlerFacts
  <2> QED
    BY <2>1, <2>2 DEF Control, HandlerRecord, IInv, Typed
<1> DEFINE r == [handler[h] EXCEPT !.pc = "await"]
<1>2. /\ r.pc = "await" /\ r.task = handler[h].task /\ r.call = handler[h].call
      /\ r.status = handler[h].status /\ r.off = handler[h].off /\ r.watch = handler[h].watch
      /\ r.result = "none"
  BY <1>1 DEF HandlerRecord
<1>3. handler'[h] = r
  BY AcceptedEffect
<1> HIDE DEF r
<1>4. \A g \in Handlers : Of(g)' = Of(g) /\ handler'[g].status = handler[g].status
  BY <1>2, <1>3, AcceptedEffect DEF Of
<1>5. Left' = Left
  BY AcceptedEffect DEF Left
<1>6. Busy'
  <2>1. linode'.job = Len(events) + 1
    BY AcceptedEffect
  <2> QED
    BY <1>1, <2>1 DEF Busy
<1>7. Last' = events'[Len(events) + 1]
  BY AcceptedEffect DEF Last
<1>8. /\ Last'.action = handler[h].call.action /\ Len(events') = Len(events) + 1
      /\ handler[h].call.action \in DiskActions => Last'.on = handler[h].call.on
  BY <1>7, AcceptedEffect
<1>9. Awaits(handler[h], Last)'
  BY <1>1, <1>2, <1>3, <1>8 DEF Awaits
<1> QED
  BY <1>2, <1>3, <1>4, <1>5, <1>6, <1>8, <1>9

LEMMA EventsAccepted ==
    ASSUME IInv, EventsTell, ConfigsKept, NEW h \in Handlers, Accepted(h)
    PROVE  EventsTell' /\ ConfigsKept'
<1> DEFINE call == handler[h].call
           n == Len(events) + 1
<1>1. ConfigsKept'
  <2>1. linode'.configs = linode.configs
    BY AcceptedEffect
  <2>2. \A g \in Handlers : Of(g)' = Of(g)
    BY AcceptedAwaits
  <2> QED
    BY <2>1, <2>2 DEF ConfigsKept
<1>2. /\ n \in DOMAIN events' /\ events'[n].action = call.action /\ events'[n].status = "started"
      /\ \A i \in DOMAIN events : i \in DOMAIN events' /\ events'[i] = events[i] /\ n > i
      /\ \A i \in DOMAIN events' : i \in DOMAIN events \/ i = n
  <2>1. \A i \in DOMAIN events : n > i
    BY DEF IInv, Typed
  <2>2. /\ n \in DOMAIN events' /\ events'[n].action = call.action /\ events'[n].status = "started"
        /\ \A i \in DOMAIN events : i \in DOMAIN events' /\ events'[i] = events[i]
        /\ \A i \in DOMAIN events' : i \in DOMAIN events \/ i = n
    BY AcceptedEffect
  <2> HIDE DEF n, call
  <2> QED
    BY <2>1, <2>2
<1>3. /\ call.action \in Boots => linode'.booted = Target(call.on) /\ events'[n].on = Target(call.on)
      /\ call.action \notin Boots => linode'.booted = linode.booted
      /\ call.action \notin PowerActions => linode'.power = linode.power
  BY AcceptedEffect DEF PowerActions, Boots
<1> HIDE DEF n, call
<1>4. ASSUME NEW i \in DOMAIN events, NEW actions, LastOf(i, actions)'
      PROVE  LastOf(i, actions) /\ call.action \notin actions
  BY <1>2, <1>4 DEF LastOf
<1>5. ASSUME NEW i \in DOMAIN events', events'[i].action \in Boots, LastOf(i, Boots)'
      PROVE  linode'.booted = events'[i].on
  <2>1. CASE i = n
    BY <1>2, <1>3, <1>5, <2>1
  <2>2. CASE i \in DOMAIN events
    BY <1>2, <1>3, <1>4, <1>5, <2>2 DEF EventsTell
  <2> QED
    BY <1>2, <2>1, <2>2
<1>6. ASSUME NEW i \in DOMAIN events', events'[i].action = "shutdown", events'[i].status = "finished",
             LastOf(i, PowerActions)'
      PROVE  linode'.power = "offline"
  <2>1. i \in DOMAIN events
    BY <1>2, <1>6
  <2> QED
    BY <1>2, <1>3, <1>4, <1>6, <2>1 DEF EventsTell
<1> QED
  BY <1>1, <1>5, <1>6 DEF EventsTell

LEMMA ColdAccepted ==
    ASSUME IInv, ColdInv, NEW h \in Handlers, Accepted(h)
    PROVE  ColdInv'
<1> SUFFICES ASSUME ~wasOn, \A g \in Handlers : ~Booter(Of(g))
    PROVE  linode'.power = "offline" /\ \A g \in Handlers : Cold(handler'[g])
  <2>1. wasOn' = wasOn
    BY AcceptedEffect
  <2>2. \A g \in Handlers : Of(g)' = Of(g)
    BY AcceptedAwaits
  <2> QED
    BY <2>1, <2>2 DEF ColdInv, Cold
<1>1. linode.power = "offline" /\ \A g \in Handlers : Cold(handler[g])
  BY DEF ColdInv
<1>2. handler[h].pc = "request" /\ handler[h].call.action \in Actions
  BY AcceptedEffect
<1>3. handler[h].call.action \in DiskActions
  BY <1>1, <1>2 DEF Accepted, Accepts, Actions, DiskActions, Cold, CallSteps
<1>4. linode'.power = "offline"
  <2>1. linode'.power = linode.power
    BY <1>3, AcceptedEffect DEF DiskActions
  <2> QED
    BY <1>1, <2>1
<1>5. Cold(handler'[h])
  <2>1. /\ handler'[h].call = handler[h].call /\ handler'[h].status = handler[h].status
        /\ handler'[h].off = handler[h].off
    BY AcceptedAwaits
  <2> QED
    BY <1>1, <1>2, <2>1 DEF Cold, CallSteps
<1>6. \A g \in Handlers : g # h => handler'[g] = handler[g]
  BY AcceptedEffect
<1> QED
  BY <1>1, <1>4, <1>5, <1>6

LEMMA WarmAccepted ==
    ASSUME IInv, Warm, NEW h \in Handlers, Accepted(h),
           handler[h].call.action = "shutdown" => OfDisk(h)
    PROVE  Warm'
<1> DEFINE call == handler[h].call
<1>0. /\ handler'[h].pc = "await" /\ handler'[h].task = handler[h].task
      /\ handler'[h].call = call /\ handler'[h].status = handler[h].status /\ Left' = Left
  BY AcceptedAwaits
<1>1. handler[h].pc = "request" /\ call.action \in Actions
         /\ \A g \in Handlers : g # h => handler'[g] = handler[g]
  BY AcceptedEffect
<1> SUFFICES ASSUME Left # {} PROVE On' \/ \E g \in Handlers : (Owing(handler[g]) \/ Doomed(handler[g]))'
  BY <1>0 DEF Warm
<1>2. CASE call.action \in Boots
  <2>1. linode'.power \in {"booting", "rebooting"}
    BY <1>2, AcceptedEffect DEF Boots
  <2> QED
    BY <2>1 DEF On
<1>3. CASE call.action = "shutdown"
  <2>1. handler[h].status = "running"
    BY <1>1, <1>3, CallFacts DEF DiskCalls, Makes, OfDisk, CallSteps, DiskVerbs, Of
  <2>2. Owing(handler[h])'
    BY <1>0, <1>3, <2>1 DEF Owing, OfDisk, Of
  <2> QED
    BY <2>2
<1>4. CASE call.action \in DiskActions
  <2>1. ~On
    BY <1>4 DEF Accepted, Accepts, DiskActions, On
  <2>2. PICK g \in Handlers : Owing(handler[g]) \/ Doomed(handler[g])
    BY <2>1 DEF Warm
  <2>3. CASE g = h
    <3>1. Owing(handler[h]) /\ ~Doomed(handler[h])
      BY <1>1, <2>2, <2>3 DEF Doomed
    <3>2. Owing(handler[h])'
      BY <1>0, <1>4, <3>1 DEF Owing, CallSteps
    <3> QED
      BY <3>2
  <2>4. CASE g # h /\ Owing(handler[g])
    BY <1>1, <2>4 DEF Owing
  <2>5. CASE g # h /\ Doomed(handler[g])
    <3>1. PICK i \in DOMAIN events :
             /\ i > handler[g].watch /\ events[i].action = handler[g].call.action
             /\ events[i].status = "failed" /\ LastOf(i, Boots)
      BY <2>5 DEF Doomed
    <3>2. i \in DOMAIN events' /\ events'[i] = events[i]
      BY AcceptedEffect
    <3>3. LastOf(i, Boots)'
      <4>1. /\ \A j \in DOMAIN events : events'[j] = events[j]
            /\ \A j \in DOMAIN events' : j \in DOMAIN events \/ j = Len(events) + 1
            /\ events'[Len(events) + 1].action = call.action
        BY AcceptedEffect
      <4>2. call.action \notin Boots
        BY <1>4 DEF DiskActions, Boots
      <4> QED
        BY <3>1, <4>1, <4>2 DEF LastOf
    <3>4. Doomed(handler[g])'
      BY <1>1, <2>5, <3>1, <3>2, <3>3 DEF Doomed
    <3> QED
      BY <3>4
  <2> QED
    BY <2>2, <2>3, <2>4, <2>5
<1> QED
  BY <1>1, <1>2, <1>3, <1>4 DEF Actions, Boots, DiskActions

\* Who is not to change the power does not.
LEMMA NeutralCalls ==
    ASSUME IInv, NEW h \in Handlers, Neutral(Of(h)), handler[h].pc \in CallSteps,
           handler[h].call.action = "shutdown"
    PROVE  OfDisk(h)
<1>1. CASE Of(h).verb \in {"create", "change"} /\ Of(h).booted = "unset"
  <2>1. ~handler[h].off
    BY <1>1, HandlerFacts DEF Control, Of
  <2> QED
    BY <1>1, <2>1, CallFacts DEF ConfigCalls, DiskVerbs, Of
<1>2. CASE Of(h).verb = "reboot"
  BY <1>2, CallFacts DEF Makes, DiskVerbs, Of
<1> QED
  BY <1>1, <1>2 DEF Neutral, OfDisk

LEMMA LaunchAccepted ==
    ASSUME IInv, ConfigsKept, LaunchInv, NEW h \in Handlers, Accepted(h)
    PROVE  LaunchInv'
<1> SUFFICES ASSUME NEW g \in Handlers, Alone(g), Booter(Of(g)), Launched(handler'[g])
    PROVE  linode'.booted = Of(g).on /\ Warm'
  <2>1. \A k \in Handlers : Of(k)' = Of(k)
    BY AcceptedAwaits
  <2>2. \A k \in Handlers : (Alone(k)' => Alone(k)) /\ (Launched(handler[k])' => Launched(handler'[k]))
    BY <2>1 DEF Alone, OfDisk, Launched
  <2> QED
    BY <2>1, <2>2 DEF LaunchInv
<1> DEFINE call == handler[h].call
<1>1. handler[h].pc = "request" /\ handler[h].pc \in CallSteps
  BY AcceptedEffect DEF CallSteps
<1>2. /\ call.action \in Boots => linode'.booted = Target(call.on)
      /\ call.action \notin Boots => linode'.booted = linode.booted
  BY AcceptedEffect
<1>3. Of(g).on \in Configs /\ Of(g).on # Nothing
  BY HandlerFacts, PowerAssumption DEF Booter, Updates, HandlerRecord, TaskRecord, DiskVerbs, Of
<1>4. CASE g = h
  <2>1. call.action \in Boots
    BY <1>4, AcceptedAwaits DEF Launched
  <2>2. call.on = Of(g).on
    BY <1>1, <1>4, <2>1, CallFacts DEF ConfigCalls, Makes, Booter, Updates, DiskVerbs, Boots, Of
  <2>3. linode'.booted = Of(g).on
    BY <1>2, <1>3, <2>1, <2>2 DEF Target
  <2>4. On'
    BY <2>1, AcceptedEffect DEF Boots, On
  <2> QED
    BY <2>3, <2>4 DEF Warm
<1>5. CASE g # h
  <2>1. OfDisk(h) /\ handler'[g] = handler[g]
    BY <1>5, AcceptedEffect DEF Alone
  <2>2. linode.booted = Of(g).on /\ Warm
    BY <2>1 DEF LaunchInv
  <2>3. Warm'
    BY <2>1, <2>2, WarmAccepted
  <2>4. linode.configs = Configs
    BY DEF ConfigsKept, Alone, OfDisk, Booter, Updates, DiskVerbs
  <2>5. call.action \in Boots => call.on = Nothing
    BY <1>1, <2>1, CallFacts DEF DiskCalls, Makes, OfDisk, DiskVerbs, Boots, Of
  <2>6. linode'.booted = linode.booted
    BY <1>2, <1>3, <2>2, <2>4, <2>5 DEF Target
  <2> QED
    BY <2>2, <2>3, <2>6
<1> QED
  BY <1>4, <1>5

LEMMA StopAccepted ==
    ASSUME IInv, StopInv, NEW h \in Handlers, Accepted(h)
    PROVE  StopInv'
<1>1. \A k \in Handlers : Of(k)' = Of(k) /\ handler'[k].status = handler[k].status
  BY AcceptedAwaits
<1>2. /\ Interlude => Interlude'
      /\ \A k \in Handlers : Alone(k)' => Alone(k)
  BY <1>1 DEF Interlude, Alone, OfDisk
<1> SUFFICES ASSUME ~Interlude, NEW g \in Handlers, Alone(g), Stopper(Of(g))
    PROVE  /\ handler'[g].pc = "decide" => handler'[g].status = linode'.power
           /\ handler'[g].result = "ok" =>
                 linode'.power = "offline" \/ linode'.booted # Of(g).on \/ BootEvents' = {}
           /\ \A i \in DOMAIN events' : i > 1 => events'[i].action \notin Boots
  BY <1>1, <1>2 DEF StopInv, At
<1>3. /\ handler[g].pc = "decide" => handler[g].status = linode.power
      /\ handler[g].result = "ok" =>
            linode.power = "offline" \/ linode.booted # Of(g).on \/ BootEvents = {}
      /\ \A i \in DOMAIN events : i > 1 => events[i].action \notin Boots
  BY DEF StopInv, At
<1> DEFINE call == handler[h].call
<1>4. handler[h].pc \in CallSteps
  BY AcceptedEffect DEF CallSteps
<1>5. call.action \notin Boots /\ (g # h => call.action \in DiskActions)
  <2>1. CASE g = h
    BY <1>4, <2>1, CallFacts DEF ConfigCalls, Makes, Stopper, Updates, DiskVerbs, Boots, Of
  <2>2. CASE g # h
    <3>1. call.action \in DiskActions
      BY <1>4, <2>2, OnlyDisks DEF Alone
    <3> QED
      BY <3>1 DEF DiskActions, Boots
  <2> QED
    BY <2>1, <2>2
<1>6. linode'.booted = linode.booted /\ (g # h => linode'.power = linode.power)
  <2>1. linode'.booted = linode.booted
    BY <1>5, AcceptedEffect
  <2>2. g # h => linode'.power = linode.power
    BY <1>5, AcceptedEffect DEF DiskActions
  <2> QED
    BY <2>1, <2>2
<1>7. \A i \in DOMAIN events' :
         \/ i \in DOMAIN events /\ events'[i] = events[i]
         \/ events'[i].action = call.action
  BY AcceptedEffect
<1>8. \A i \in DOMAIN events' : i > 1 => events'[i].action \notin Boots
  BY <1>3, <1>5, <1>7
<1>9. BootEvents = {} => BootEvents' = {}
  BY <1>5, <1>7 DEF BootEvents, Boots
<1>10. CASE g = h
  BY <1>8, <1>10, AcceptedAwaits
<1>11. CASE g # h
  <2>1. handler'[g] = handler[g]
    BY <1>11, AcceptedEffect
  <2> QED
    BY <1>3, <1>6, <1>8, <1>9, <1>11, <2>1
<1> QED
  BY <1>10, <1>11

LEMMA AcceptedStep ==
    ASSUME IInv, SettledInv, Well, NEW h \in Handlers, Accepted(h)
    PROVE  SettledInv'
<1>1. EventsTell /\ ConfigsKept /\ ColdInv /\ WatchedInv /\ WarmInv /\ LaunchInv /\ StopInv
  BY DEF SettledInv
<1>2. WatchedInv'
  BY AcceptedAwaits DEF WatchedInv
<1>3. WarmInv'
  <2>1. (\A g \in Handlers : Of(g)' = Of(g)) /\ wasOn' = wasOn /\ handler[h].pc \in CallSteps
    BY AcceptedAwaits, AcceptedEffect DEF CallSteps
  <2> SUFFICES ASSUME wasOn, \A g \in Handlers : Neutral(Of(g)) PROVE Warm'
    BY <2>1 DEF WarmInv
  <2> QED
    BY <1>1, <2>1, WarmAccepted, NeutralCalls DEF WarmInv
<1> QED
  BY <1>1, <1>2, <1>3, EventsAccepted, ColdAccepted, LaunchAccepted, StopAccepted DEF SettledInv

-----------------------------------------------------------------------------
(* A job that ends. *)

LEMMA DisksLeft ==
    ASSUME IInv, EndJob
    PROVE  Left' # {} => Left # {}
<1> DEFINE job == events[linode.job]
           disks == CASE job.action = "disk_resize" -> [linode.disks EXCEPT ![job.on] = "new"]
                      [] job.action = "disk_delete" -> [linode.disks EXCEPT ![job.on] = "gone"]
                      [] OTHER                      -> linode.disks
<1>1. linode \in LinodeRecord /\ linode.disks \in [Disks -> {"old", "new", "gone"}]
  BY DEF IInv, Typed, LinodeRecord
<1>2. Busy /\ linode.job \in DOMAIN events /\ job = Last
  BY <1>1 DEF EndJob, IInv, Typed, JobInv, Busy, LinodeRecord, Last
<1>3. linode'.disks = disks \/ linode'.disks = linode.disks
  <2>1. \/ \E up : linode' = [linode EXCEPT !.job = 0, !.power = up, !.disks = disks]
        \/ \E down : linode' = [linode EXCEPT !.job = 0, !.power = down]
    BY DEF EndJob
  <2> HIDE DEF disks
  <2> QED
    BY <1>1, <2>1 DEF LinodeRecord
<1>4. \/ job.action = "disk_resize" /\ disks = [linode.disks EXCEPT ![job.on] = "new"]
      \/ job.action = "disk_delete" /\ disks = [linode.disks EXCEPT ![job.on] = "gone"]
      \/ disks = linode.disks
  OBVIOUS
<1> SUFFICES ASSUME NEW d \in Disks, linode'.disks[d] # "gone", linode.disks[d] = "gone" PROVE FALSE
  BY DEF Left
<1>5. job.action = "disk_resize" /\ job.on = d
  <2> HIDE DEF disks, job
  <2> QED
    BY <1>1, <1>3, <1>4
<1>6. PICK g \in Handlers : Works(g, "disk_delete", d)
  BY DEF IInv, EventInv
<1>7. PICK h \in Handlers : Works(h, "disk_resize", d)
  BY <1>2, <1>5 DEF IInv, EventInv, Told, DiskActions
<1>8. g = h
  BY <1>6, <1>7, OneWorks DEF Works
<1> QED
  BY <1>6, <1>7, <1>8 DEF Works

LEMMA EndJobEffect ==
    ASSUME IInv, EndJob
    PROVE  LET n == Len(events)
           IN  /\ Busy /\ ~Busy' /\ UNCHANGED <<handler, wasOn>>
               /\ n \in DOMAIN events /\ (\A i \in DOMAIN events : i <= n)
               /\ DOMAIN events' = DOMAIN events /\ Len(events') = n
               /\ \A i \in DOMAIN events : events'[i].action = events[i].action
                                              /\ events'[i].on = events[i].on
               /\ \A i \in DOMAIN events : i # n => events'[i] = events[i]
               /\ Last = events[n] /\ Last.action \in Actions /\ Last.status = "started"
               /\ linode'.booted = linode.booted /\ linode'.configs = linode.configs
               /\ \/ /\ events'[n].status = "finished"
                     /\ linode'.power = IF Last.action \in Boots THEN "running" ELSE "offline"
                  \/ /\ events'[n].status = "failed"
                     /\ linode'.power = IF Last.action = "shutdown" THEN "running" ELSE "offline"
<1> DEFINE n == Len(events)
           up == CASE linode.power \in {"booting", "rebooting"} -> "running"
                   [] linode.power = "shutting_down"            -> "offline"
                   [] OTHER                                     -> linode.power
           down == CASE linode.power \in {"booting", "rebooting"} -> "offline"
                     [] linode.power = "shutting_down"            -> "running"
                     [] OTHER                                     -> linode.power
<1>1. linode \in LinodeRecord /\ events \in Seq(EventRecord) /\ n \in Nat /\ DOMAIN events = 1 .. n
  BY DEF IInv, Typed
<1>2. Busy /\ linode.job = n /\ n # 0 /\ Last = events[n] /\ Last.status = "started"
  BY DEF EndJob, IInv, JobInv, Busy, Last
<1>3. n \in DOMAIN events /\ (\A i \in DOMAIN events : i <= n) /\ Last \in EventRecord
         /\ Last.action \in Actions
  <2>1. n \in DOMAIN events /\ \A i \in DOMAIN events : i <= n
    BY <1>1, <1>2
  <2>2. events[n] \in EventRecord
    <3> HIDE DEF n
    <3> QED
      BY <1>1, <2>1
  <2> HIDE DEF n
  <2> QED
    BY <1>2, <2>1, <2>2 DEF EventRecord
<1>4. UNCHANGED <<handler, wasOn>>
  BY DEF EndJob
<1>5. /\ up = IF Last.action \in Boots THEN "running" ELSE "offline"
      /\ down = IF Last.action = "shutdown" THEN "running" ELSE "offline"
  BY <1>2, <1>3 DEF IInv, JobInv, Boots, Actions
<1>6. PICK status : /\ events' = [events EXCEPT ![n].status = status]
                    /\ \/ status = "finished" /\ \E disks :
                             linode' = [linode EXCEPT !.job = 0, !.power = up, !.disks = disks]
                       \/ status = "failed" /\ linode' = [linode EXCEPT !.job = 0, !.power = down]
  <2>1. \/ /\ events' = [events EXCEPT ![n].status = "finished"]
           /\ \E disks : linode' = [linode EXCEPT !.job = 0, !.power = up, !.disks = disks]
        \/ /\ events' = [events EXCEPT ![n].status = "failed"]
           /\ linode' = [linode EXCEPT !.job = 0, !.power = down]
    BY <1>2 DEF EndJob
  <2> HIDE DEF up, down, n
  <2> QED
    BY <2>1
<1> HIDE DEF up, down
<1>7. /\ linode'.job = 0 /\ linode'.booted = linode.booted /\ linode'.configs = linode.configs
      /\ linode'.power = IF status = "finished" THEN up ELSE down
  BY <1>1, <1>6 DEF LinodeRecord
<1>8. /\ DOMAIN events' = DOMAIN events /\ Len(events') = n
      /\ \A i \in DOMAIN events : i # n => events'[i] = events[i]
      /\ events'[n] = [Last EXCEPT !.status = status]
  <2>1. events' = [events EXCEPT ![n] = [Last EXCEPT !.status = status]]
    BY <1>2, <1>6
  <2>2. \A x : LET made == [events EXCEPT ![n] = x]
                IN  /\ DOMAIN made = DOMAIN events /\ made[n] = x
                    /\ \A i \in DOMAIN events : i # n => made[i] = events[i]
    BY <1>1, <1>3
  <2>3. [Last EXCEPT !.status = status] \in EventRecord
    BY <1>3, <1>6 DEF EventRecord
  <2>4. Len(events') = n
    <3>1. \A x \in EventRecord : Len([events EXCEPT ![n] = x]) = Len(events)
      BY <1>1, <1>3
    <3> QED
      BY <2>1, <2>3, <3>1
  <2> HIDE DEF n
  <2> QED
    BY <2>1, <2>2, <2>4
<1>9. /\ events'[n].status = status /\ events'[n].action = Last.action /\ events'[n].on = Last.on
  BY <1>3, <1>8 DEF EventRecord
<1>10. status = "finished" \/ status = "failed"
  BY <1>6
<1>11. ~Busy'
  BY <1>7 DEF Busy
<1> HIDE DEF n
<1> QED
  BY <1>2, <1>3, <1>4, <1>5, <1>7, <1>8, <1>9, <1>10, <1>11 DEF n

\* What an event is about does not change when its job ends.
LEMMA LastOfEnd ==
    ASSUME IInv, EndJob
    PROVE  /\ \A i : /\ LastOf(i, Boots)' <=> LastOf(i, Boots)
                     /\ LastOf(i, PowerActions)' <=> LastOf(i, PowerActions)
           /\ BootEvents' = BootEvents
<1>1. /\ DOMAIN events' = DOMAIN events
      /\ \A i \in DOMAIN events : events'[i].action = events[i].action
  BY EndJobEffect
<1> QED
  BY <1>1 DEF LastOf, BootEvents

LEMMA EventsEnd ==
    ASSUME IInv, EventsTell, ConfigsKept, EndJob
    PROVE  EventsTell' /\ ConfigsKept'
<1> DEFINE n == Len(events)
<1>1. ConfigsKept'
  <2>1. linode'.configs = linode.configs /\ handler' = handler
    BY EndJobEffect
  <2> QED
    BY <2>1 DEF ConfigsKept, Of
<1>2. /\ DOMAIN events' = DOMAIN events /\ linode'.booted = linode.booted
      /\ \A i \in DOMAIN events : events'[i].action = events[i].action
                                     /\ events'[i].on = events[i].on
      /\ n \in DOMAIN events /\ Last = events[n]
  BY EndJobEffect
<1>3. ASSUME NEW i \in DOMAIN events', events'[i].action \in Boots, LastOf(i, Boots)'
      PROVE  linode'.booted = events'[i].on
  BY <1>2, <1>3, LastOfEnd DEF EventsTell
<1>4. ASSUME NEW i \in DOMAIN events', events'[i].action = "shutdown", events'[i].status = "finished",
             LastOf(i, PowerActions)'
      PROVE  linode'.power = "offline"
  <2>1. CASE i = n
    <3>1. Last.action = "shutdown" /\ events'[n].status = "finished"
      BY <1>2, <1>4, <2>1
    <3>2. linode'.power = IF Last.action \in Boots THEN "running" ELSE "offline"
      BY <3>1, EndJobEffect
    <3> QED
      BY <3>1, <3>2 DEF Boots
  <2>2. CASE i # n
    <3>1. n > i
      <4>1. i <= n /\ i \in Nat /\ n \in Nat
        BY <1>2, EndJobEffect DEF IInv, Typed
      <4> QED
        BY <2>2, <4>1
    <3>2. Last.action \notin PowerActions
      BY <1>2, <1>4, <3>1 DEF LastOf
    <3> QED
      BY <3>2, EndJobEffect DEF PowerActions, Boots
  <2> QED
    BY <2>1, <2>2
<1> QED
  BY <1>1, <1>3, <1>4 DEF EventsTell

LEMMA ColdEnd ==
    ASSUME IInv, ColdInv, EndJob
    PROVE  ColdInv'
<1>1. handler' = handler /\ wasOn' = wasOn
  BY EndJobEffect
<1> SUFFICES ASSUME ~wasOn, \A g \in Handlers : ~Booter(Of(g))
    PROVE  linode'.power = "offline" /\ \A g \in Handlers : Cold(handler[g])
  BY <1>1 DEF ColdInv, Cold, Of
<1>2. linode.power = "offline" /\ \A g \in Handlers : Cold(handler[g])
  BY DEF ColdInv
<1>3. Busy /\ Last.action \in Actions
  BY EndJobEffect
<1>4. Last.action \in DiskActions
  BY <1>2, <1>3 DEF IInv, JobInv, Actions, DiskActions
<1>5. linode'.power = "offline"
  BY <1>4, EndJobEffect DEF DiskActions, Boots
<1> QED
  BY <1>2, <1>5

\* Somebody waits for the job: if it was a boot that has failed, the handler will fail.
LEMMA WarmEnd ==
    ASSUME IInv, WatchedInv, Warm, EndJob, \A g \in Handlers : Plain(Of(g)),
           \A g \in Handlers :
              handler[g].pc = "await" /\ handler[g].call.action = "shutdown" => OfDisk(g)
    PROVE  Warm'
<1> DEFINE n == Len(events)
<1>1. /\ handler' = handler /\ Busy /\ Last.action \in Actions
      /\ n \in DOMAIN events /\ DOMAIN events' = DOMAIN events /\ Last = events[n]
      /\ \A i \in DOMAIN events : i <= n
      /\ \A i \in DOMAIN events : events'[i].action = events[i].action
      /\ \A i \in DOMAIN events : i # n => events'[i] = events[i]
      /\ Last.status = "started"
  BY EndJobEffect
<1>2. \/ /\ events'[n].status = "finished"
         /\ linode'.power = IF Last.action \in Boots THEN "running" ELSE "offline"
      \/ /\ events'[n].status = "failed"
         /\ linode'.power = IF Last.action = "shutdown" THEN "running" ELSE "offline"
  BY EndJobEffect
<1>3. PICK k \in Handlers : Awaits(handler[k], Last)
  BY <1>1 DEF WatchedInv
<1>4. handler[k].pc = "await" /\ handler[k].call.action = Last.action /\ handler[k].watch < n
  BY <1>3 DEF Awaits
<1> HIDE DEF n
<1> SUFFICES ASSUME Left # {}, ~On'
    PROVE  \E g \in Handlers : (Owing(handler[g]) \/ Doomed(handler[g]))'
  BY DisksLeft DEF Warm
<1>5. CASE Last.action \in Boots
  <2>1. events'[n].status = "failed" /\ events'[n].action = Last.action
    BY <1>1, <1>2, <1>5 DEF On
  <2>2. \A j \in DOMAIN events' : ~(j > n)
    <3>1. \A j \in DOMAIN events : j <= n /\ j \in Nat /\ n \in Nat
      BY <1>1 DEF IInv, Typed
    <3> QED
      BY <1>1, <3>1
  <2>4. n > handler[k].watch
    <3>1. n \in Nat /\ handler[k].watch \in Nat
      BY <1>1, HandlerFacts DEF IInv, Typed, HandlerRecord
    <3> QED
      BY <1>4, <3>1
  <2>5. Doomed(handler[k])'
    BY <1>1, <1>4, <1>5, <2>1, <2>2, <2>4 DEF Doomed, LastOf
  <2> QED
    BY <2>5
<1>6. CASE Last.action = "shutdown"
  <2>1. OfDisk(k) /\ handler[k].pc \in CallSteps
    BY <1>4, <1>6 DEF CallSteps
  <2>2. handler[k].status = "running"
    BY <1>4, <1>6, <2>1, CallFacts DEF DiskCalls, Makes, OfDisk, DiskVerbs, Of
  <2>3. Owing(handler[k])'
    BY <1>1, <1>4, <1>6, <2>1, <2>2 DEF Owing, OfDisk, Of
  <2> QED
    BY <2>3
<1>7. CASE Last.action \in DiskActions
  <2>1. ~On
    BY <1>1, <1>7 DEF IInv, JobInv, On, DiskActions
  <2>2. PICK g \in Handlers : Owing(handler[g]) \/ Doomed(handler[g])
    BY <2>1 DEF Warm
  <2>3. CASE Owing(handler[g])
    BY <1>1, <2>3 DEF Owing
  <2>4. CASE Doomed(handler[g])
    <3>1. PICK i \in DOMAIN events :
             /\ i > handler[g].watch /\ events[i].action = handler[g].call.action
             /\ events[i].status = "failed" /\ LastOf(i, Boots)
      BY <2>4 DEF Doomed
    <3>2. i # n
      BY <1>1, <3>1
    <3>3. events'[i] = events[i] /\ LastOf(i, Boots)'
      BY <1>1, <3>1, <3>2, LastOfEnd
    <3>4. Doomed(handler[g])'
      BY <1>1, <2>4, <3>1, <3>3 DEF Doomed
    <3> QED
      BY <3>4
  <2> QED
    BY <2>2, <2>3, <2>4
<1> QED
  BY <1>1, <1>5, <1>6, <1>7 DEF Actions, Boots, DiskActions

LEMMA LaunchEnd ==
    ASSUME IInv, WatchedInv, LaunchInv, EndJob
    PROVE  LaunchInv'
<1>1. handler' = handler /\ linode'.booted = linode.booted
  BY EndJobEffect
<1> SUFFICES ASSUME NEW g \in Handlers, Alone(g), Booter(Of(g)), Launched(handler[g])
    PROVE  linode'.booted = Of(g).on /\ Warm'
  BY <1>1 DEF LaunchInv, Alone, OfDisk, Launched, Of
<1>2. linode.booted = Of(g).on /\ Warm
  BY DEF LaunchInv
<1>3. ASSUME NEW k \in Handlers, handler[k].pc = "await", handler[k].call.action = "shutdown"
      PROVE  OfDisk(k)
  <2>1. k # g
    BY <1>3, HandlerFacts DEF Launched, Boots, Control
  <2> QED
    BY <2>1 DEF Alone
<1>4. Warm'
  BY <1>2, <1>3, PlainTasks, WarmEnd
<1> QED
  BY <1>1, <1>2, <1>4

LEMMA StopEnd ==
    ASSUME IInv, WatchedInv, StopInv, EndJob
    PROVE  StopInv'
<1>1. /\ handler' = handler /\ linode'.booted = linode.booted /\ Busy
      /\ DOMAIN events' = DOMAIN events
      /\ \A i \in DOMAIN events : events'[i].action = events[i].action
  BY EndJobEffect
<1>2. BootEvents' = BootEvents
  BY LastOfEnd
<1> SUFFICES ASSUME ~Interlude, NEW g \in Handlers, Alone(g), Stopper(Of(g))
    PROVE  /\ handler[g].pc = "decide" => handler[g].status = linode'.power
           /\ handler[g].result = "ok" =>
                 linode'.power = "offline" \/ linode.booted # Of(g).on \/ BootEvents = {}
           /\ \A i \in DOMAIN events : i > 1 => events[i].action \notin Boots
  BY <1>1, <1>2 DEF StopInv, At, Alone, Interlude, OfDisk, Of
<1>3. /\ handler[g].pc = "decide" => handler[g].status = linode.power
      /\ handler[g].result = "ok" =>
            linode.power = "offline" \/ linode.booted # Of(g).on \/ BootEvents = {}
      /\ \A i \in DOMAIN events : i > 1 => events[i].action \notin Boots
  BY DEF StopInv, At
<1>4. PICK k \in Handlers : Awaits(handler[k], Last)
  BY <1>1, PlainTasks DEF WatchedInv
<1>5. handler[k].pc = "await" /\ handler[k].pc \in CallSteps /\ handler[k].call.action = Last.action
  BY <1>4 DEF Awaits, CallSteps
<1>6. ASSUME handler[g].pc # "await" PROVE linode'.power = linode.power
  <2>1. Last.action \in DiskActions
    BY <1>5, <1>6, OnlyDisks DEF Alone
  <2>2. linode.power = "offline"
    BY <1>1, <2>1 DEF IInv, JobInv, DiskActions
  <2>3. linode'.power = "offline"
    BY <2>1, EndJobEffect DEF DiskActions, Boots
  <2> QED
    BY <2>2, <2>3
<1>7. handler[g].result = "ok" => handler[g].pc = "end"
  BY HandlerFacts DEF Control
<1> QED
  BY <1>3, <1>6, <1>7

LEMMA EndJobSettled ==
    ASSUME IInv, SettledInv, Well, EndJob
    PROVE  SettledInv'
<1>1. EventsTell /\ ConfigsKept /\ ColdInv /\ WatchedInv /\ WarmInv /\ LaunchInv /\ StopInv
  BY DEF SettledInv
<1>2. WatchedInv'
  BY EndJobEffect DEF WatchedInv
<1>3. WarmInv'
  <2>1. handler' = handler /\ wasOn' = wasOn
    BY EndJobEffect
  <2> SUFFICES ASSUME wasOn, \A g \in Handlers : Neutral(Of(g)) PROVE Warm'
    BY <2>1 DEF WarmInv, Of
  <2>2. \A g \in Handlers :
           handler[g].pc = "await" /\ handler[g].call.action = "shutdown" => OfDisk(g)
    BY NeutralCalls DEF CallSteps
  <2> QED
    BY <1>1, <2>2, PlainTasks, WarmEnd DEF WarmInv
<1> QED
  BY <1>1, <1>2, <1>3, EventsEnd, ColdEnd, LaunchEnd, StopEnd DEF SettledInv

-----------------------------------------------------------------------------
(* The invariant, and the theorem. *)

LEMMA MovesSettled ==
    ASSUME IInv, SettledInv, Well, NEW h \in Handlers, Moves(h)
    PROVE  SettledInv'
<1>1. EventsTell /\ ConfigsKept /\ ColdInv /\ WatchedInv /\ WarmInv /\ LaunchInv /\ StopInv
  BY DEF SettledInv
<1>2. PICK r : Move(h, r)
  BY DEF Moves
<1>3. Still
  BY DEF Moves
<1>4. WarmInv'
  <2>1. (\A g \in Handlers : Of(g)' = Of(g)) /\ wasOn' = wasOn
    BY <1>2, <1>3, MoveEffect DEF Still
  <2> SUFFICES ASSUME wasOn, \A g \in Handlers : Neutral(Of(g)) PROVE Warm'
    BY <2>1 DEF WarmInv
  <2> QED
    BY <1>1, <1>2, <1>3, PlainTasks, WarmMove DEF WarmInv
<1>5. EventsTell' /\ ConfigsKept'
  <2>1. EventsTell'
    BY <1>1, <1>3 DEF EventsTell, LastOf, Still
  <2>2. ConfigsKept'
    BY <1>1, <1>2, <1>3, MoveEffect DEF ConfigsKept, Moves
  <2> QED
    BY <2>1, <2>2
<1> QED
  BY <1>1, <1>2, <1>3, <1>4, <1>5, ColdMove, WatchedMove, LaunchMove, StopMove DEF SettledInv

LEMMA InitSettled == Init => SettledInv
<1> SUFFICES ASSUME Init PROVE SettledInv
  OBVIOUS
<1>1. PICK power \in {"running", "offline"}, c \in Configs : Begins(power, c)
  BY DEF Init
<1>2. PICK task \in Assignments : handler = [h \in Handlers |-> Fresh(task[h])]
  BY DEF Init
<1>3. /\ linode.job = 0 /\ linode.power = power /\ linode.configs = Configs /\ linode.booted = c
      /\ wasOn = (power = "running")
  BY <1>1 DEF Begins, Init
<1>4. \A g \in Handlers : handler[g].pc = "start" /\ handler[g].status = Nothing
                             /\ ~handler[g].off /\ handler[g].result = "none"
  BY <1>2 DEF Fresh
<1>5. \A i \in DOMAIN events : i = 1 /\ events[i].action = "boot" /\ events[i].on = c
  <2> DEFINE e == [action |-> "boot", on |-> c, status |-> "finished"]
  <2>1. CASE events = <<>>
    BY <2>1
  <2>2. CASE events = <<e>>
    BY <2>2
  <2> QED
    BY <1>1, <2>1, <2>2 DEF Begins
<1>6. EventsTell
  BY <1>3, <1>5 DEF EventsTell
<1>7. ColdInv
  BY <1>3, <1>4 DEF ColdInv, Cold, CallSteps, Nothing
<1>8. WarmInv
  BY <1>3 DEF WarmInv, Warm, On
<1>9. LaunchInv
  BY <1>4 DEF LaunchInv, Launched
<1>10. StopInv
  BY <1>4, <1>5 DEF StopInv, At
<1> QED
  BY <1>3, <1>6, <1>7, <1>8, <1>9, <1>10 DEF SettledInv, ConfigsKept, WatchedInv, Busy

LEMMA NextSettled == IInv /\ SettledInv /\ [Next]_vars => SettledInv'
<1> SUFFICES ASSUME IInv, SettledInv, [Next]_vars PROVE SettledInv'
  OBVIOUS
<1>1. CASE Next /\ Well'
  <2>1. Well
    BY <1>1, WellBack
  <2> QED
    BY <1>1, <2>1, WellSteps, EndJobSettled, AcceptedStep, MovesSettled
<1>2. CASE ~Well'
  BY <1>2 DEF SettledInv
<1>3. CASE UNCHANGED vars
  <2>1. linode' = linode /\ events' = events /\ handler' = handler /\ wasOn' = wasOn
    BY <1>3 DEF vars
  <2> QED
    BY <2>1
       DEF SettledInv, Well, EventsTell, LastOf, ConfigsKept, ColdInv, Cold, WatchedInv, Awaits, Busy,
           Last, WarmInv, Warm, Left, On, Owing, Doomed, LaunchInv, Launched, Alone, OfDisk, StopInv,
           Interlude, At, BootEvents, Of
<1> QED
  BY <1>1, <1>2, <1>3

\* When all have succeeded nothing is left to be done, and nothing runs.
LEMMA AllQuiet ==
    ASSUME IInv, SettledInv, Succeeded
    PROVE  /\ EventsTell /\ ColdInv /\ WarmInv /\ LaunchInv /\ StopInv
           /\ (\A g \in Handlers : Plain(Of(g))) => ~Busy
           /\ Warm /\ Left # {} => On
<1>1. \A g \in Handlers : handler[g].pc = "end" /\ handler[g].result = "ok" /\ ~handler[g].noted
  BY HandlerFacts DEF Succeeded, Ended, At, Control
<1>2. Well
  BY <1>1 DEF Well
<1>3. \A g \in Handlers : ~Awaits(handler[g], Last) /\ ~Owing(handler[g]) /\ ~Doomed(handler[g])
  BY <1>1 DEF Awaits, Owing, Doomed, CallSteps
<1> QED
  BY <1>2, <1>3 DEF SettledInv, WatchedInv, Warm

\* If all handlers succeed, and all but one work on disks, the Linode ends as the one
\* wants it - running its config, or not running it - or as it was: whichever way the
\* requests of the others fall between its own, and although jobs of theirs may fail.
\* A disk handler that has shut the Linode down boots it again or fails; the job that
\* runs is awaited by somebody, who fails if it does; and only a disk handler that has
\* found the Linode running touches its power.
THEOREM PowerSettled == Spec => []PowerAsConfigured
<1>1. Spec => [](IInv /\ SettledInv)
  BY InitIInv, InitSettled, NextIInv, NextSettled, PTL DEF Spec
<1>2. IInv /\ SettledInv => PowerAsConfigured
  <2> SUFFICES ASSUME IInv, SettledInv, Succeeded, Left # {}, NEW h \in Handlers, Alone(h)
      PROVE  LET on == linode.power = "running"
                 mine == linode.booted = Of(h).on
             IN  CASE Of(h).booted = "true" /\ Of(h).verb # "remove"  -> on /\ mine
                   [] Of(h).booted = "false" /\ Of(h).verb # "remove" ->
                         ~(on /\ mine) \/ Interlude \/ BootEvents = {}
                   [] Of(h).verb = "remove" \/ (Of(h).verb = "rewire" /\ ~Manages(h)) -> on => wasOn
                   [] OTHER                                           -> on = wasOn
    BY DEF PowerAsConfigured, Alone
  <2>1. handler[h].result = "ok" /\ Of(h) \in TaskRecord /\ wasOn \in BOOLEAN
    BY HandlerFacts DEF Succeeded, HandlerRecord, Of, IInv, Typed
  <2>2. ~Busy => linode.power \in {"running", "offline"}
    BY DEF IInv, JobInv
  <2>3. On /\ ~Busy => linode.power = "running"
    BY <2>2 DEF On
  <2>4. CASE Booter(Of(h))
    <3>1. linode.booted = Of(h).on /\ On /\ ~Busy
      BY <2>1, <2>4, AllQuiet, PlainTasks DEF LaunchInv, Launched
    <3>2. Of(h).booted = "true" /\ Of(h).verb # "remove"
      BY <2>4 DEF Booter, Updates
    <3> QED
      BY <2>3, <3>1, <3>2 DEF Manages
  <2>5. CASE Stopper(Of(h))
    <3>1. ~Interlude => linode.power = "offline" \/ linode.booted # Of(h).on \/ BootEvents = {}
      BY <2>1, <2>5, AllQuiet DEF StopInv
    <3>2. Of(h).booted = "false" /\ Of(h).booted # "true" /\ Of(h).verb # "remove"
      BY <2>5 DEF Stopper, Updates
    <3>3. linode.power # "running" \/ linode.booted # Of(h).on \/ Interlude \/ BootEvents = {}
      BY <3>1
    <3> QED
      BY <3>2, <3>3 DEF Manages
  <2>6. CASE ~Booter(Of(h)) /\ ~Stopper(Of(h))
    <3>1. ~wasOn => linode.power = "offline"
      <4>1. \A g \in Handlers : ~Booter(Of(g))
        BY <2>6 DEF Alone, OfDisk, Booter, Updates, DiskVerbs
      <4> QED
        BY <4>1, AllQuiet DEF ColdInv
    <3>2. CASE Neutral(Of(h))
      <4>1. \A g \in Handlers : Neutral(Of(g))
        BY <3>2 DEF Alone, OfDisk, Neutral
      <4>2. wasOn => linode.power = "running"
        BY <2>3, <4>1, AllQuiet, PlainTasks DEF WarmInv
      <4>3. (linode.power = "running") = wasOn
        BY <2>1, <3>1, <4>2
      <4>4. /\ Of(h).booted = "unset" /\ Of(h).verb # "remove" /\ Of(h).verb # "rewire"
        BY <2>1, <3>2 DEF Neutral, TaskRecord, DiskVerbs, ConfigVerbs
      <4> QED
        BY <4>3, <4>4
    <3>3. CASE ~Neutral(Of(h))
      <4>1. Of(h).verb = "remove" \/ (Of(h).verb = "rewire" /\ Of(h).booted = "unset")
        BY <2>1, <2>6, <3>3 DEF Neutral, Booter, Stopper, Updates, TaskRecord, DiskVerbs, ConfigVerbs
      <4> QED
        BY <3>1, <4>1 DEF Manages
    <3> QED
      BY <3>2, <3>3
  <2> QED
    BY <2>4, <2>5, <2>6
<1> QED
  BY <1>1, <1>2, PTL
================================================================================

----------------------------- MODULE AudioOwner -----------------------------
(***************************************************************************)
(* Who may play on the one speaker: AirPlay 1 with the multi-room engine,  *)
(* AirPlay 2 without it, or LMS.  The switches are scripts that edit UCI   *)
(* and shairport's file and stop and start services one after the other;   *)
(* the web backend, a shell and the knob run them without a lock.  What    *)
(* a script does to one service or one file without a look in between is   *)
(* one command.                                                            *)
(*                                                                         *)
(* External: the services, which run as their configuration says when they *)
(* are started, and the boot, which starts those that are enabled.         *)
(***************************************************************************)
EXTENDS Sequences

VARIABLES
    conf,     \* UCI: engine ("replaynet" or "none"), node (its enabled), lms,
              \* airplay; shairport's file: type, pipe
    boots,    \* is the service enabled at boot?
    runs,     \* what it runs as, "off" if it does not
    todo,     \* the commands the script of each caller has still to run
    changed,  \* _changed of its rn_engine_ensure
    excused   \* history: since the last whole switch two scripts overlapped, a
              \* reboot cut one short, a group was changed while LMS played, or
              \* a source was switched from the shell

ownVars == <<conf, boots, runs, todo, changed, excused>>

Services == {"shairport", "replaynet", "squeezelite"}
Callers == {"remote", "knob"}
Working == {c \in Callers : todo[c] # <<>>}

(* As the first boot of a converged image leaves it: AirPlay 1.  The defaults are
   applied in the order of their names, so that squeezelite, which 99-beep-converged
   disables, is enabled after it by 99-beep-squeezelite. *)
OwnInit ==
    /\ conf = [engine |-> "replaynet", node |-> TRUE, lms |-> FALSE, airplay |-> TRUE,
               type |-> "classic", pipe |-> TRUE]
    /\ boots = [s \in Services |-> TRUE]
    /\ runs = [shairport |-> "classic", replaynet |-> "on", squeezelite |-> "off"]
    /\ todo = [c \in Callers |-> <<>>] /\ changed = [c \in Callers |-> FALSE]
    /\ excused = FALSE

-----------------------------------------------------------------------------
(* The scripts. *)
Command(do, what, to) == [do |-> do, what |-> what, to |-> to]
Set(what, to) == Command("set", what, to)
Stop(s) == Command("stop", s, "off")            \* and disable
Start(s) == Command("start", s, "on")           \* enable and restart
Restart(s) == Command("restart", s, "on")
Ensure(what) == Command("ensure", what, "on")
Group(role) == Command("group", "engine", role)
Apply(what) == Command("apply", what, "on")

LmsStays == <<>>                                                      \* fault

(* beep-airplay-mode: whenever AirPlay comes up, LMS goes first. *)
LmsFirst == <<Stop("squeezelite")>>
AirplayMode(m) ==
    LmsFirst \o IF m = "ap1"
                THEN <<Set("engine", "replaynet"), Set("type", "classic"), Group("apply")>>
                ELSE <<Set("engine", "none"), Set("type", "airplay2"), Group("apply")>>

(* set_lms does the inverse. *)
SetLms(on) ==
    <<Set("lms", on)>> \o
        IF on THEN <<Stop("replaynet"), Stop("shairport"), Start("squeezelite")>>
        ELSE <<Stop("squeezelite"), Apply("mode")>>

(* beep-source. *)
SourceLms(on) == <<Set("lms", on), Restart("squeezelite")>>
SourceAirplay(on) ==
    <<Set("airplay", on), IF on THEN Start("shairport") ELSE Stop("shairport")>>

(* beep-group, once it has read the engine.  The knob's toggle leaves shairport
   alone if there is none. *)
GroupProgram(role) ==
    IF conf.engine = "replaynet"
    THEN <<Ensure("node"), Ensure("replaynet"), Ensure("pipe"), Apply("if-changed")>>
    ELSE <<Set("node", FALSE), Stop("replaynet"), Set("pipe", FALSE)>>
             \o IF role = "toggle" THEN <<>> ELSE <<Apply("shairport")>>

-----------------------------------------------------------------------------
(* One command.  What a script noted goes when it does. *)
RunsAs(s) ==
    CASE s = "shairport" -> conf.type
      [] s = "replaynet" -> IF conf.node THEN "on" ELSE "off"
      [] s = "squeezelite" -> IF conf.lms THEN "on" ELSE "off"

Started(s) == boots' = [boots EXCEPT ![s] = TRUE] /\ runs' = [runs EXCEPT ![s] = RunsAs(s)]
Stopped(s) == boots' = [boots EXCEPT ![s] = FALSE] /\ runs' = [runs EXCEPT ![s] = "off"]
services == <<boots, runs>>

Next1(c) == Head(todo[c])
Leads(c, program) == todo' = [todo EXCEPT ![c] = program \o Tail(@)]
Does(c, kind) == c \in Working /\ Next1(c).do = kind

Sets(c) ==
    /\ Does(c, "set") /\ Leads(c, <<>>)
    /\ conf' = [conf EXCEPT ![Next1(c).what] = Next1(c).to]
    /\ UNCHANGED <<services, changed>>

Stops(c) ==
    /\ Does(c, "stop") /\ Leads(c, <<>>) /\ Stopped(Next1(c).what)
    /\ UNCHANGED <<conf, changed>>

Starts(c) ==
    /\ Does(c, "start") /\ Leads(c, <<>>) /\ Started(Next1(c).what)
    /\ UNCHANGED <<conf, changed>>

Restarts(c) ==
    /\ Does(c, "restart") /\ Leads(c, <<>>)
    /\ runs' = [runs EXCEPT ![Next1(c).what] = RunsAs(Next1(c).what)]
    /\ UNCHANGED <<conf, boots, changed>>

(* rn_engine_ensure touches what is not as it should be, and notes that it did. *)
Lacking(what) == IF what = "replaynet" THEN runs.replaynet = "off" ELSE ~ conf[what]

Ensures(c) ==
    /\ Does(c, "ensure") /\ Leads(c, <<>>)
    /\ LET what == Next1(c).what
       IN /\ changed' = [changed EXCEPT ![c] = @ \/ Lacking(what)]
          /\ \/ ~ Lacking(what) /\ UNCHANGED <<conf, services>>
             \/ Lacking(what) /\ what = "replaynet" /\ Started(what) /\ UNCHANGED conf
             \/ /\ Lacking(what) /\ what # "replaynet"
                /\ conf' = [conf EXCEPT ![what] = TRUE] /\ UNCHANGED services

Groups(c) ==
    /\ Does(c, "group") /\ Leads(c, GroupProgram(Next1(c).to))
    /\ changed' = [changed EXCEPT ![c] = FALSE]
    /\ UNCHANGED <<conf, services>>

(* set_lms applies the mode there is; sp_apply starts or stops the receiver. *)
Applies(c) ==
    /\ Does(c, "apply") /\ UNCHANGED conf
    /\ changed' = [changed EXCEPT ![c] = FALSE]
    /\ \/ /\ Next1(c).what = "mode"
          /\ Leads(c, AirplayMode(IF conf.engine = "none" THEN "ap2" ELSE "ap1"))
          /\ UNCHANGED services
       \/ /\ Next1(c).what = "shairport" \/ (Next1(c).what = "if-changed" /\ changed[c])
          /\ Leads(c, <<>>)
          /\ IF conf.airplay THEN Started("shairport") ELSE Stopped("shairport")
       \/ /\ Next1(c).what = "if-changed" /\ ~ changed[c]
          /\ Leads(c, <<>>) /\ UNCHANGED services

Script ==
    /\ \E c \in Callers : \/ Sets(c) \/ Stops(c) \/ Starts(c) \/ Restarts(c) \/ Ensures(c)
                          \/ Groups(c) \/ Applies(c)
    /\ UNCHANGED excused

-----------------------------------------------------------------------------
Begin(c, program) ==
    /\ c \notin Working /\ todo' = [todo EXCEPT ![c] = program]
    /\ UNCHANGED <<conf, services, changed>>

(* A switch to AirPlay 2 or LMS puts everything right, whatever was before.  One to
   AirPlay 1 may not: rn_engine_ensure restarts shairport only if it found the
   engine lacking something, whatever beep-airplay-mode wrote before. *)
Rights(program) == Begin("remote", program) /\ excused' = (Working # {})
Switch(program) == Begin("remote", program) /\ excused' = (excused \/ Working # {})

(* A change of the group brings AirPlay up under LMS. *)
Rouses(role) == runs.squeezelite = "on" /\ ~ (role = "toggle" /\ conf.engine = "none")
Regroup(c, role) ==
    Begin(c, <<Group(role)>>) /\ excused' = (excused \/ Working # {} \/ Rouses(role))

Shell(program) == Begin("remote", program) /\ excused' = TRUE

Reboot ==
    /\ runs' = [s \in Services |-> IF boots[s] THEN RunsAs(s) ELSE "off"]
    /\ todo' = [c \in Callers |-> <<>>] /\ changed' = [c \in Callers |-> FALSE]
    /\ excused' = (excused \/ Working # {})
    /\ UNCHANGED <<conf, boots>>

Asked ==
    \/ Rights(AirplayMode("ap2")) \/ Rights(SetLms(TRUE))
    \/ Switch(AirplayMode("ap1")) \/ Switch(SetLms(FALSE))
    \/ \E on \in BOOLEAN : Shell(SourceLms(on)) \/ Shell(SourceAirplay(on))
    \/ Regroup("remote", "apply") \/ Regroup("knob", "toggle")

OwnNext == Script \/ Asked \/ Reboot
OwnSpec == OwnInit /\ [][OwnNext]_ownVars

(* With no script at work, the speaker is AirPlay's or LMS's and never both, and
   AirPlay 2 and the engine never run together; and somebody has it unless the
   owner turned AirPlay off. *)
OneOwner ==
    Working = {} /\ ~ excused =>
        /\ runs.squeezelite = "on" => runs.shairport = "off" /\ runs.replaynet = "off"
        /\ runs.replaynet = "on" => runs.shairport # "airplay2"
        /\ runs.squeezelite = "off" /\ conf.airplay => runs.shairport # "off"
=============================================================================

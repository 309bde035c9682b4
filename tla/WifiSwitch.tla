----------------------------- MODULE WifiSwitch -----------------------------
(***************************************************************************)
(* The one radio of the device, between a client network and the setup AP: *)
(* set_wifi (the web backend) configures a network, netcheck-loop (the     *)
(* watchdog) looks every few seconds whether the client is connected, and  *)
(* wifi-revert keeps a snapshot for the watchdog to go back to.  They      *)
(* share UCI's wireless configuration and files in tmpfs, without a lock.  *)
(*                                                                         *)
(* One step for each command that touches what another program looks at;   *)
(* the network's name, password and mode are one key, and the five exports *)
(* of the snapshot one step, as only the wireless part of the configuration*)
(* is kept.  The radio works (ensure_radio has done its part).             *)
(***************************************************************************)
EXTENDS Integers

CONSTANTS Networks,  \* networks the owner names
          Good,      \* those whose name and password are right
          Window,    \* bound: the 90 s of a join, in ticks
          MaxEvents  \* bound on what the owner, the air and the mains do

VARIABLES
    cfg,       \* UCI's wireless, as `uci get` shows it: [net, client, ap]
    saved,     \* what of it is committed, and outlives a reboot
    live,      \* the configuration the radio runs
    linked,    \* wwan is up and has an address
    prev,      \* wifi-prev: is the directory there, and the snapshot in it
    joining,   \* ticks until the deadline in the joining marker
    rpc,       \* where set_wifi is, "idle" if it does not run
    target,    \* the network it was asked for
    wd,        \* where the watchdog is
    reloadDue, \* wifi-setup-enable, run for a hold, has still to reload the radio
    invited,   \* history: the owner has asked for the setup AP
    crossed,   \* history: set_wifi edited while the watchdog acted on a look before that
    raced,     \* history: set_wifi and the watchdog acted at once, or a reboot
               \* took the snapshot
    events

wifiVars == <<cfg, saved, live, linked, prev, joining, rpc, target, wd, reloadDue,
              invited, crossed, raced, events>>
uci == <<cfg, saved>>
radio == <<uci, live, linked>>
past == <<reloadDue, invited, crossed, raced, events>>

Unset == 0                     \* not provisioned: mode is not sta

ASSUME WifiAssumption ==
    /\ Networks \subseteq Nat \ {Unset} /\ Good \subseteq Networks
    /\ Window \in Nat /\ MaxEvents \in Nat

Config == [net : Networks \cup {Unset}, client : BOOLEAN, ap : BOOLEAN]
Client(n) == [net |-> n, client |-> TRUE, ap |-> FALSE]
Setup(c) == [c EXCEPT !.client = FALSE, !.ap = TRUE]
Disarmed == [dir |-> FALSE, file |-> {}]

WifiInit ==
    /\ cfg \in {Client(n) : n \in Good} \cup {[net |-> Unset, client |-> FALSE, ap |-> FALSE]}
    /\ saved = cfg /\ live = cfg /\ linked = FALSE /\ prev = Disarmed
    /\ joining = IF cfg.net = Unset THEN 0 ELSE Window
    /\ rpc = "idle" /\ target = Unset /\ wd = "look"
    /\ reloadDue = FALSE /\ events = 0
    /\ invited = FALSE /\ crossed = FALSE /\ raced = FALSE

(* `wifi reload` takes the link down, whatever it reloads; `uci commit` keeps what is
   staged, whoever staged it. *)
Reload == live' = cfg /\ linked' = FALSE /\ UNCHANGED uci
Commits(c) == cfg' = c /\ saved' = c /\ UNCHANGED <<live, linked>>

-----------------------------------------------------------------------------
(* set_wifi.  The page is reached through the setup AP or the client network. *)
Submit(n) ==
    /\ rpc = "idle" /\ (live.ap \/ linked)
    /\ rpc' = "arm" /\ target' = n
    /\ UNCHANGED <<radio, prev, joining, wd>>

(* wifi-revert arm keeps the snapshot of a join that is still pending. *)
Arm ==
    /\ rpc = "arm"
    /\ \/ prev.dir /\ rpc' = "name" /\ UNCHANGED prev
       \/ ~ prev.dir /\ rpc' = "export" /\ prev' = [dir |-> TRUE, file |-> {}]
    /\ UNCHANGED <<radio, joining, target, wd>>

SnapshotLate == Client(target)      \* fault: taken once the new network is set
Snapshot == cfg

Export ==
    /\ rpc = "export" /\ rpc' = "name"
    /\ prev' = IF prev.dir THEN [prev EXCEPT !.file = {Snapshot}] ELSE prev
    /\ UNCHANGED <<radio, joining, target, wd>>

(* The keys, one after the other, and the commit. *)
Keys == {"name", "enable", "handover"}
AfterKey == [name |-> "enable", enable |-> "handover", handover |-> "commit"]
WithKey(c) == CASE rpc = "name" -> [c EXCEPT !.net = target]
                [] rpc = "enable" -> [c EXCEPT !.client = TRUE]
                [] rpc = "handover" -> [c EXCEPT !.ap = FALSE]

Edit ==
    /\ rpc \in Keys /\ rpc' = AfterKey[rpc]
    /\ cfg' = WithKey(cfg)
    /\ UNCHANGED <<saved, live, linked, prev, joining, target, wd>>

Commit ==
    /\ rpc = "commit" /\ rpc' = "mark"
    /\ Commits(cfg)
    /\ UNCHANGED <<prev, joining, target, wd>>

Mark ==
    /\ rpc = "mark" /\ rpc' = "reload"
    /\ joining' = Window
    /\ UNCHANGED <<radio, prev, target, wd>>

Switch ==
    /\ rpc = "reload" /\ rpc' = "idle"
    /\ Reload
    /\ UNCHANGED <<prev, joining, target, wd>>

-----------------------------------------------------------------------------
(* netcheck-loop, look by look, and what it does then. *)
NotLinked == ~ linked                         \* fault: a lost link raises the AP
NoClient == cfg.net = Unset

Looks(next) == wd' = next /\ UNCHANGED <<radio, prev, joining, rpc, target>>

Look ==
    \/ wd = "look" /\ Looks(IF NoClient THEN "ap_up" ELSE "sta_ok")
    \/ wd = "ap_up" /\ Looks(IF cfg.ap THEN "sleep" ELSE "raise")
    \/ wd = "sta_ok" /\ Looks(IF linked THEN "unmark" ELSE "joining")
    \/ wd = "joining" /\ Looks(IF joining > 0 THEN "sleep" ELSE "armed")
    \/ wd = "armed" /\ Looks(IF prev.dir THEN "revert" ELSE "sleep")
    \/ wd = "lower" /\ Looks(IF cfg.ap THEN "disable" ELSE "sleep")

(* wifi-setup-enable, up to its reload. *)
Raise ==
    /\ wd = "raise" /\ wd' = "apply"
    /\ Commits(Setup(cfg))
    /\ UNCHANGED <<prev, joining, rpc, target>>

(* Connected: the join is over, the switch is for good, the AP goes. *)
Unmark ==
    /\ wd = "unmark" /\ wd' = "confirm"
    /\ joining' = 0
    /\ UNCHANGED <<radio, prev, rpc, target>>

Confirm ==
    /\ wd = "confirm" /\ wd' = "lower"
    /\ prev' = Disarmed
    /\ UNCHANGED <<radio, joining, rpc, target>>

(* wifi-setup-disable, up to its reload. *)
Lower ==
    /\ wd = "disable" /\ wd' = "apply"
    /\ Commits(Client(cfg.net))
    /\ UNCHANGED <<prev, joining, rpc, target>>

(* wifi-revert: back to the snapshot, but for keys that set_wifi has staged and
   that the import leaves to be committed with it. *)
Staged(c) == [net |-> IF rpc \in {"enable", "handover", "commit"} THEN target ELSE c.net,
              client |-> c.client \/ rpc \in {"handover", "commit"},
              ap |-> c.ap /\ rpc # "commit"]

Revert ==
    /\ wd = "revert" /\ wd' = "disarm"
    /\ \/ prev.file = {} /\ UNCHANGED radio
       \/ \E c \in prev.file : Commits(c) \/ Commits(Staged(c))
    /\ UNCHANGED <<prev, joining, rpc, target>>

Disarm ==
    /\ wd = "disarm" /\ wd' = "apply"
    /\ prev' = Disarmed
    /\ UNCHANGED <<radio, joining, rpc, target>>

Apply ==
    /\ wd = "apply" /\ wd' = "sleep"
    /\ Reload
    /\ UNCHANGED <<prev, joining, rpc, target>>

Wakes ==
    /\ wd = "sleep" /\ wd' = "look"
    /\ UNCHANGED <<radio, prev, joining, rpc, target>>

-----------------------------------------------------------------------------
(* A network whose password is right is joined, within the window if one is open. *)
Joinable == live.client /\ ~ live.ap /\ live.net \in Good /\ ~ linked

Links ==
    /\ Joinable /\ linked' = TRUE
    /\ UNCHANGED <<uci, live, prev, joining, rpc, target, wd>>

Tick ==
    /\ joining > 0 /\ (joining = 1 => ~ Joinable /\ rpc # "reload")
    /\ joining' = joining - 1
    /\ UNCHANGED <<radio, prev, rpc, target, wd>>

(* The link is lost; the owner holds the knob for the setup AP; the mains go. *)
Drops ==
    /\ linked /\ linked' = FALSE
    /\ UNCHANGED <<uci, live, prev, joining, rpc, target, wd>>

Hold ==
    /\ ~ reloadDue /\ reloadDue' = TRUE
    /\ Commits(Setup(cfg))
    /\ UNCHANGED <<prev, joining, rpc, target, wd>>

Reboot ==
    /\ cfg' = saved /\ live' = saved /\ linked' = FALSE /\ UNCHANGED <<saved, target>>
    /\ prev' = Disarmed /\ rpc' = "idle" /\ wd' = "look" /\ reloadDue' = FALSE
    /\ joining' = IF saved.net = Unset THEN 0 ELSE Window

(* The watchdog does more than look while set_wifi is at work. *)
Looking == {"sleep", "look", "ap_up", "sta_ok", "joining", "armed"}
Meet == raced' = (raced \/ (rpc' # "idle" /\ wd' \notin Looking))

(* It goes by a mode it read before set_wifi set one, or reloads what set_wifi has
   only half set. *)
Cross == crossed' = (crossed \/ /\ rpc' \in {"enable", "handover", "commit"}
                                /\ wd' \in {"ap_up", "raise", "revert", "apply"})

(* Online for good, and no AP set up anywhere or about to be: whoever wants it next
   has to ask anew. *)
OnlineForGood == wd = "confirm" /\ ~ (live.ap \/ cfg.ap \/ saved.ap \/ reloadDue)

SetWifi ==
    /\ Arm \/ Export \/ Edit \/ Commit \/ Mark \/ Switch
    /\ Meet /\ Cross /\ UNCHANGED <<reloadDue, invited, events>>

Watchdog ==
    /\ \/ Look \/ Raise \/ Unmark \/ Confirm \/ Lower \/ Revert \/ Disarm \/ Apply \/ Wakes
    /\ Meet /\ UNCHANGED <<reloadDue, events>>
    /\ IF OnlineForGood THEN invited' = FALSE /\ crossed' = FALSE
                        ELSE Cross /\ UNCHANGED invited

(* The reload of the script that the hold started. *)
HoldReload ==
    /\ reloadDue /\ reloadDue' = FALSE
    /\ Reload
    /\ UNCHANGED <<prev, joining, rpc, target, wd, invited, crossed, raced, events>>

Radio == Links /\ UNCHANGED past
Uptime == Tick /\ UNCHANGED past

Event ==
    /\ events < MaxEvents /\ events' = events + 1
    /\ \/ (\E n \in Networks : Submit(n)) /\ Meet /\ UNCHANGED <<reloadDue, invited, crossed>>
       \/ Drops /\ UNCHANGED <<reloadDue, invited, crossed, raced>>
       \/ Hold /\ invited' = TRUE /\ UNCHANGED <<crossed, raced>>
       \/ Reboot /\ raced' = (raced \/ prev.dir \/ rpc # "idle") /\ UNCHANGED <<invited, crossed>>

WifiNext == SetWifi \/ Watchdog \/ HoldReload \/ Radio \/ Uptime \/ Event

WifiSpec == WifiInit /\ [][WifiNext]_wifiVars

(* ANTI-DEAUTH: a device that has a network raises its setup AP only if its owner
   held the knob for it since it last was online, whatever becomes of its link, of
   a join or of its power.  The exception is a network that set_wifi is just setting
   while the watchdog goes by its last look at one that had none, or reloads. *)
AntiDeauth == live.ap /\ live.net # Unset => invited \/ crossed

(* Somebody can get at the device: it is on a network, or its setup AP is up. *)
Reachable == linked \/ live.ap
=============================================================================

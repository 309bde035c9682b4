------------------------------ MODULE RingFlags ------------------------------
(***************************************************************************)
(* The flags by which the LED ring tells the state of the device: beepd    *)
(* keeps a copy of each and refreshes them in turn, one every third poll,  *)
(* from files other programs write.  They write by `echo ... > file`: the  *)
(* file is emptied first and filled afterwards, and beepd may read it in   *)
(* between.  A behaviour is about one flag.                                *)
(***************************************************************************)
EXTENDS Integers

CONSTANT Wait   \* bound: polls until the deadline of a group being joined

VARIABLES flag,    \* which one
          file,    \* its file: "absent", "empty", "yes" or "no"
          left,    \* polls until the deadline in it
          loops,   \* the poll counter, modulo the cycle
          copy,    \* beepd's: is the flag on?
          meant,   \* what the last program to write or remove it meant
          steady   \* history: polls since the truth changed or a write was under way

flagVars == <<flag, file, left, loops, copy, meant, steady>>

Cycle == 12
Flags == {"led_mode", "net_connected", "muted", "connecting", "playing"}

(* When it is refreshed: the PCM's state twice a cycle. *)
Turns(f) == CASE f = "led_mode" -> {0} [] f = "net_connected" -> {3}
              [] f = "muted" -> {6} [] f = "connecting" -> {9}
              [] f = "playing" -> {0, 6}

(* Where a mere file is enough, where a word is wanted, where a time. *)
DeadlineIgnored(f, content) ==                                        \* fault
    IF f = "muted" THEN content # "absent" ELSE content = "yes"
Copied(f, content) ==
    CASE f = "muted" -> content # "absent"
      [] f = "connecting" -> content = "yes" /\ left > 0
      [] OTHER -> content = "yes"

FlagsInit ==
    /\ flag \in Flags /\ file = "absent" /\ left = 0 /\ loops = 0
    /\ copy = FALSE /\ meant = FALSE /\ steady = 0

(* The status of the PCM is the kernel's, and whole; the flag of a mute is a file
   without content. *)
Empties ==
    /\ flag \notin {"playing", "muted"} /\ file # "empty"
    /\ file' = "empty" /\ steady' = 0
    /\ UNCHANGED <<flag, left, loops, copy, meant>>

Fills(word) ==
    /\ flag \in {"playing", "muted"} \/ file = "empty"
    /\ word = "no" => flag \in {"net_connected", "playing"}
    /\ file' = word /\ meant' = (word = "yes")
    /\ left' = IF flag = "connecting" THEN Wait ELSE left
    /\ steady' = 0
    /\ UNCHANGED <<flag, loops, copy>>

Removes ==
    /\ flag # "net_connected" /\ file # "absent"
    /\ file' = "absent" /\ meant' = FALSE /\ steady' = 0
    /\ UNCHANGED <<flag, left, loops, copy>>

Passed == left = 1 /\ file = "yes"

Poll ==
    /\ copy' = IF loops \in Turns(flag) THEN Copied(flag, file) ELSE copy
    /\ loops' = (loops + 1) % Cycle
    /\ left' = IF left > 0 THEN left - 1 ELSE 0
    /\ meant' = (meant /\ ~ (flag = "connecting" /\ Passed))
    /\ steady' = IF file = "empty" \/ meant' # meant THEN 0
                 ELSE IF steady < Cycle THEN steady + 1 ELSE steady
    /\ UNCHANGED <<flag, file>>

FlagsNext == Poll \/ Empties \/ Removes \/ \E word \in {"yes", "no"} : Fills(word)

(* The ring does not stay behind: once the truth has stood for a cycle of polls,
   half a second, and no write has been under way in it, the ring shows it.  A
   join that never comes to play is over when its time is. *)
UpToDate == steady = Cycle => copy = meant
=============================================================================

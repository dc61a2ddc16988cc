--------------------------- MODULE WshProperties ---------------------------
(* What the p3 shell promises to its user. *)
EXTENDS Wsh

Entries == [words : Seq(Words), redirect : Redirects, room : Nat]
HistoryType(size) ==
  [commands : [0 .. size - 1 -> Entries], capacity : {size}, count : 0 .. size,
   start : 0 .. size - 1, end : 0 .. size]

(* The fields have their types; a variable has one place (wsh.c:226-250). *)
WshTypeOK ==
  /\ history.capacity \in Nat \ {0} /\ history \in HistoryType(history.capacity)
  /\ mode \in {"reading", "exited", "undefined"} /\ last_cmd_rc \in {0, 1, 255}
  /\ shell_vars \in Seq([name : Names, value : Values \cup {NotSet}])
  /\ \A i, j \in DOMAIN shell_vars : shell_vars[i].name = shell_vars[j].name => i = j
  /\ env \in [Names -> Values \cup {NotSet}]

(* The circular buffer: its commands are where start and count say, end is behind them
   and inside the buffer whenever it is written to, whatever the sizes it was given and
   although set_history_size leaves end at new_size (wsh.c:424-436, 498-504). *)
RingOf(h) ==
  /\ h.end % h.capacity = (h.start + h.count) % h.capacity
  /\ h.count < h.capacity => h.end < h.capacity

(* Every command in it has a literal as its first word, for which the memory it was given
   is enough, whatever was cut from it since (wsh.c:311, 427, 668). *)
FirstFits(e) ==
  e.words # <<>> /\ ~e.words[1].var /\ Length[e.words[1].text] + 1 <= e.room
CommandsFit(h) == \A n \in 1 .. h.count : FirstFits(h.commands[Index(h, n)])

RingExact == RingOf(history) /\ CommandsFit(history)

(* The shell implements a session that remembers what was typed, and in which running a
   remembered command again changes nothing (README.md:240-254), but for one case:
   running again a command that has arguments or a redirection, or that is not the
   last one, changes the history (wsh.c:463, 645, 668). *)
Remembered(n) ==
  LET e == history.commands[Index(history, n)]
  IN  [words |-> e.words, redirect |-> e.redirect]
Shown == [n \in 1 .. history.count |-> Remembered(n)]
S == INSTANCE Session WITH
       list <- Shown, limit <- history.capacity, export <- env,
       local <- [x \in Names |-> GetShellVar(x)]

Harmless(n) ==
  n = history.count /\ Len(Remembered(n).words) = 1 /\ Remembered(n).redirect = "none"
RerunsWhatIsShown ==
  \E n \in 1 .. history.count :
    ~Harmless(n) /\ (mode' = "undefined" \/ S!Ran(Remembered(n)))
ImplementsSession ==
  [][S!SNext \/ RerunsWhatIsShown]_<<Shown, history.capacity, env, ran,
                                     [x \in Names |-> GetShellVar(x)]>>

(* The shell's state is consistent at every step: types, and the circular buffer. *)
HistoryInvariant == WshTypeOK /\ RingExact
=============================================================================

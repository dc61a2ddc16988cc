-------------------------------- MODULE Wsh --------------------------------
(***************************************************************************)
(* The p3 shell (wsh.c): its history, its variables and the commands it    *)
(* runs.  It is one process that waits for each program, so a line of      *)
(* input is one step.                                                      *)
(*                                                                         *)
(* A line is a sequence of words, each a literal or the name of a variable *)
(* after a "$", the first one a literal, and a redirection that            *)
(* parse_redirection tells apart (">", "<" or "2>").  Texts are compared   *)
(* and have a length; they are not spelled out.                            *)
(***************************************************************************)
EXTENDS Sequences, FiniteSetsExt

CONSTANTS
  Lines,                 \* commands that are not built in
  Names, Values,         \* of variables
  Sizes,                 \* arguments of history set
  Installed,             \* programs that find_command_in_path finds
  Texts, Length,         \* the names, values and literals, and the length of each
  DEFAULT_HISTORY_SIZE, MAX_VARS

NotSet == ""
Words == [var : {FALSE}, text : Texts] \cup [var : {TRUE}, text : Names]
Redirects == {"none", ">", "<", "2>"}

ASSUME WshSizes == DEFAULT_HISTORY_SIZE \in Nat \ {0} /\ MAX_VARS \in Nat /\ Sizes \subseteq Nat
ASSUME WshTexts == Names \cup Values \cup {NotSet} \subseteq Texts /\ Length \in [Texts -> Nat]
ASSUME WshLines ==
  /\ Lines \subseteq [words : Seq(Words), redirect : Redirects]
  /\ \A line \in Lines : line.words # <<>> /\ ~line.words[1].var

VARIABLES history, shell_vars, env,
          ran,           \* the last command, as execute_command ran it
          last_cmd_rc,
          mode           \* "reading", "exited", or "undefined" after a use of freed memory
                         \* or a string longer than its allocation

vars == <<history, shell_vars, env, ran, last_cmd_rc, mode>>

NoLine == [words |-> <<>>, redirect |-> "none", room |-> 0]

Init ==
  /\ history = [commands |-> [i \in 0 .. DEFAULT_HISTORY_SIZE - 1 |-> NoLine],
                capacity |-> DEFAULT_HISTORY_SIZE, count |-> 0, start |-> 0, end |-> 0]
  /\ shell_vars = <<>>
  /\ env = [x \in Names |-> NotSet]
  /\ ran = [argv |-> <<>>, redirect |-> "none"]
  /\ last_cmd_rc = 0
  /\ mode = "reading"

Reading == mode = "reading"

-----------------------------------------------------------------------------
(* Variables                                                                *)

Places(x) == {i \in DOMAIN shell_vars : shell_vars[i].name = x}
GetShellVar(x) == IF Places(x) = {} THEN NotSet ELSE shell_vars[Min(Places(x))].value

\* Without a free place nothing is stored.
SetShellVar(x, v) ==
  IF Places(x) # {} THEN [shell_vars EXCEPT ![Min(Places(x))].value = v]
  ELSE IF Len(shell_vars) < MAX_VARS THEN Append(shell_vars, [name |-> x, value |-> v])
  ELSE shell_vars

\* expand_variables: the environment first.
Expand(w) ==
  IF ~w.var THEN w.text ELSE IF env[w.text] # NotSet THEN env[w.text] ELSE GetShellVar(w.text)

\* strtok passes over what expands to nothing.
Args(words) == SelectSeq([i \in DOMAIN words |-> Expand(words[i])], LAMBDA t : t # NotSet)

\* The length of a line before and after its variables are expanded.
TextLength(words) ==
  SumFunctionOnSet([i \in DOMAIN words |-> Length[words[i].text] + (IF words[i].var THEN 2 ELSE 1)],
                   DOMAIN words)
ExpandedLength(words) ==
  SumFunctionOnSet([i \in DOMAIN words |-> Length[Expand(words[i])] + 1], DOMAIN words)

-----------------------------------------------------------------------------
(* The history                                                              *)

SameText(e, f) == e.words = f.words /\ e.redirect = f.redirect

\* strdup
Copy(line) == [words |-> line.words, redirect |-> line.redirect,
               room |-> TextLength(line.words) + (IF line.redirect = "none" THEN 0 ELSE 3)]

\* Mutant: the last command is looked for at end.
IsLastAtEnd(h, line) == h.count > 0 /\ SameText(h.commands[h.end % h.capacity], line)

IsLast(h, line) ==
  h.count > 0 /\ SameText(h.commands[(h.end + h.capacity - 1) % h.capacity], line)

\* Mutant: end does not follow start when the oldest command is overwritten.
InsertHistoryEndStays(h, line) ==
  IF IsLast(h, line) THEN h
  ELSE IF h.count = h.capacity
  THEN [h EXCEPT !.commands[h.start] = Copy(line), !.start = (@ + 1) % h.capacity]
  ELSE [h EXCEPT !.commands[h.end] = Copy(line), !.end = (@ + 1) % h.capacity, !.count = @ + 1]

InsertHistory(h, line) ==
  IF IsLast(h, line) THEN h
  ELSE IF h.count = h.capacity
  THEN [h EXCEPT !.commands[h.start] = Copy(line), !.start = (@ + 1) % h.capacity,
                 !.end = (@ + 1) % h.capacity]
  ELSE [h EXCEPT !.commands[h.end] = Copy(line), !.end = (@ + 1) % h.capacity, !.count = @ + 1]

Index(h, n) == (h.start + n - 1) % h.capacity

\* set_history_size copies from the oldest on; end may be new_size.
Resized(h, size) ==
  LET kept == Min({h.count, size})
  IN  [commands |-> [i \in 0 .. size - 1 |->
                      IF i < kept THEN h.commands[Index(h, i + 1)] ELSE NoLine],
       capacity |-> size, count |-> kept, start |-> 0, end |-> kept]

-----------------------------------------------------------------------------
(* execute_command                                                          *)

\* A program's status, or 255 if there is none of that name.
Runs(line) ==
  /\ ran' = [argv |-> Args(line.words), redirect |-> line.redirect]
  /\ last_cmd_rc' \in IF line.words[1].text \in Installed THEN {0, 1} ELSE {255}

\* A line that was typed: it is remembered before it is parsed.
Command(line) ==
  /\ Reading
  /\ history' = InsertHistory(history, line)
  /\ Runs(line)
  /\ UNCHANGED <<shell_vars, env, mode>>

\* history n runs execute_command on the remembered string itself: it is inserted like a
\* typed one, expanded in place and cut behind its first word.
FreesItself(h, e, i) == ~IsLast(h, e) /\ h.count = h.capacity /\ i = h.start
Overflows(e) == ExpandedLength(e.words) > e.room

HistoryCommand(n) ==
  /\ Reading /\ n \in 1 .. history.count
  /\ LET i == Index(history, n)
         e == history.commands[i]
     IN  IF FreesItself(history, e, i) \/ Overflows(e)
         THEN mode' = "undefined" /\ UNCHANGED <<history, ran, last_cmd_rc>>
         ELSE /\ history' = [InsertHistory(history, e) EXCEPT !.commands[i].words = <<e.words[1]>>,
                                                             !.commands[i].redirect = "none"]
              /\ Runs(e)
              /\ UNCHANGED mode
  /\ UNCHANGED <<shell_vars, env>>

\* A number that has no command.
HistoryNothing ==
  /\ Reading /\ last_cmd_rc' = 1
  /\ UNCHANGED <<history, shell_vars, env, ran, mode>>

SetHistorySize(size) ==
  /\ Reading /\ size > 0
  /\ history' = Resized(history, size)
  /\ last_cmd_rc' = 0
  /\ UNCHANGED <<shell_vars, env, ran, mode>>

LocalCommand(x, w) ==
  /\ Reading
  /\ shell_vars' = SetShellVar(x, Expand(w))
  /\ last_cmd_rc' = 0
  /\ UNCHANGED <<history, env, ran, mode>>

\* A value that expands to nothing is none.
ExportCommand(x, w) ==
  /\ Reading
  /\ IF Expand(w) = NotSet THEN last_cmd_rc' = 1 /\ env' = env
     ELSE last_cmd_rc' = 0 /\ env' = [env EXCEPT ![x] = Expand(w)]
  /\ UNCHANGED <<history, shell_vars, ran, mode>>

\* "exit" or the end of the input, with the status of the last command.
Exit == Reading /\ mode' = "exited" /\ UNCHANGED <<history, shell_vars, env, ran, last_cmd_rc>>

Assigned == {[var |-> FALSE, text |-> v] : v \in Values \cup {NotSet}}
            \cup {[var |-> TRUE, text |-> x] : x \in Names}

Next ==
  \/ \E line \in Lines : Command(line)
  \/ \E n \in 1 .. history.count : HistoryCommand(n)
  \/ HistoryNothing
  \/ \E size \in Sizes : SetHistorySize(size)
  \/ \E x \in Names, w \in Assigned : LocalCommand(x, w) \/ ExportCommand(x, w)
  \/ Exit

Spec == Init /\ [][Next]_vars
=============================================================================

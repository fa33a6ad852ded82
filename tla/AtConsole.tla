-------------------------------- MODULE AtConsole --------------------------------
(***************************************************************************)
(* The command console of assets/webui.js, components.atConsole: a line of *)
(* input, one POST at a time, and a history of the answers.  An action is  *)
(* one task of the browser's event loop; between Post and its answer, the  *)
(* await of send, the user goes on typing, repeating and clearing.         *)
(***************************************************************************)
EXTENDS Integers, Sequences

CONSTANTS
  Cmds,         \* commands
  Blank,        \* an input that trims to nothing
  HistorySize,  \* historySize
  MaxSent       \* bound: the commands sent

ASSUME ConsoleOK ==
  /\ Blank \notin Cmds
  /\ HistorySize \in Nat \ {0}
  /\ MaxSent \in Nat

VARIABLES
  cmd,       \* the input
  history,   \* the answers, newest first
  sending,   \* is a send under way?
  error,     \* is an error shown?
  flight,    \* the commands whose POST is not answered yet
  sent,      \* history variable: the commands sent, in order
  cleared    \* history variable: how many of them the last clear came after

ghost == <<sent, cleared>>
vars  == <<cmd, history, sending, error, flight, ghost>>

Entry == [cmd : Cmds, ok : BOOLEAN]

Init ==
  /\ cmd = Blank /\ history = <<>> /\ sending = FALSE /\ error = FALSE
  /\ flight = <<>> /\ sent = <<>> /\ cleared = 0

\* The user types, or a script sets cmd.
Type(c) ==
  /\ cmd' = c
  /\ UNCHANGED <<history, sending, error, flight, ghost>>

\* Mutant: a send does not wait for the one before.
Idle_Always(c) == c # Blank

Idle(c) == c # Blank /\ ~sending

Post(c) ==
  /\ Len(sent) < MaxSent
  /\ sending' = TRUE /\ error' = FALSE
  /\ flight' = Append(flight, c)
  /\ sent' = Append(sent, c)

\* send up to its await, with c in the input; it does nothing while sending.
SendFrom(c) ==
  \/ Idle(c) /\ Post(c)
  \/ ~Idle(c) /\ UNCHANGED <<sending, error, flight, sent>>

Send == SendFrom(cmd) /\ UNCHANGED <<cmd, history, cleared>>

Repeat(i) ==
  /\ i \in 1 .. Len(history)
  /\ cmd' = history[i].cmd
  /\ SendFrom(history[i].cmd)
  /\ UNCHANGED <<history, cleared>>

\* Mutant: the new entry is cut off instead of the oldest.
Pushed_CutsNewest(e) ==
  IF Len(history) < HistorySize THEN <<e>> \o history ELSE history

\* _push
Pushed(e) == SubSeq(<<e>> \o history, 1, IF Len(history) < HistorySize
                                         THEN Len(history) + 1 ELSE HistorySize)

\* The POST returns JSON, with an ok of either value.
Answered ==
  /\ flight # <<>>
  /\ \E ok \in BOOLEAN : history' = Pushed([cmd |-> Head(flight), ok |-> ok])
  /\ cmd' = Blank
  /\ flight' = Tail(flight) /\ sending' = FALSE
  /\ UNCHANGED <<error, ghost>>

\* Mutant: sending is reset only on success.
Rejected_StaysSending ==
  /\ flight # <<>>
  /\ history' = Pushed([cmd |-> Head(flight), ok |-> FALSE])
  /\ error' = TRUE
  /\ flight' = Tail(flight)
  /\ UNCHANGED <<cmd, sending, ghost>>

\* It fails, or its body is no JSON, so that reading r.response throws.
Rejected ==
  /\ flight # <<>>
  /\ history' = Pushed([cmd |-> Head(flight), ok |-> FALSE])
  /\ error' = TRUE
  /\ flight' = Tail(flight) /\ sending' = FALSE
  /\ UNCHANGED <<cmd, ghost>>

Clear ==
  /\ history' = <<>> /\ error' = FALSE
  /\ cleared' = Len(sent) - Len(flight)
  /\ UNCHANGED <<cmd, sending, flight, sent>>

User ==
  \/ \E c \in Cmds \cup {Blank} : Type(c)
  \/ Send
  \/ \E i \in 1 .. HistorySize : Repeat(i)
  \/ Clear

Next == User \/ Answered \/ Rejected

Spec == Init /\ [][Next]_vars

\* The browser settles every fetch.
FairSpec == Spec /\ WF_vars(Answered \/ Rejected)
-----------------------------------------------------------------------------
(* Properties.                                                             *)

TypeOK ==
  /\ cmd \in Cmds \cup {Blank}
  /\ history \in Seq(Entry) /\ Len(history) <= HistorySize
  /\ sending \in BOOLEAN /\ error \in BOOLEAN
  /\ flight \in Seq(Cmds) /\ Len(flight) <= 1
  /\ sent \in Seq(Cmds)
  /\ cleared \in 0 .. Len(sent)

\* The history is what was sent and answered since the last clear, newest first,
\* without a gap or a repetition, as far as it fits.
HistoryInOrder ==
  LET answered == Len(sent) - Len(flight)
      since    == answered - cleared IN
  /\ Len(history) = IF since < HistorySize THEN since ELSE HistorySize
  /\ \A i \in 1 .. Len(history) : history[i].cmd = sent[answered + 1 - i]

\* The console never stays blocked: a send that is under way comes to an end.
Unblocks == sending ~> ~sending
===============================================================================

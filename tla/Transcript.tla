----------------------------- MODULE Transcript -----------------------------
(***************************************************************************)
(* The messages an agent loop sends to its model and how they are cut to   *)
(* the input budget (internal/agent/truncate.go).  A message is a record   *)
(* of its number in the conversation, its role, its size in tokens and the *)
(* number of tool calls it makes; its text is left out.                    *)
(***************************************************************************)
EXTENDS Integers, Sequences, SequencesExt, FiniteSetsExt

Message == [id : Nat, role : {"system", "user", "assistant", "tool"}, size : Nat, calls : Nat]

Tokens(ms) ==
  LET total[n \in 0 .. Len(ms)] == IF n = 0 THEN 0 ELSE total[n - 1] + ms[n].size
  IN  total[Len(ms)]

(* A model without tools gets neither tool calls nor tool results. *)
StripTools(ms) ==
  LET said[n \in 0 .. Len(ms)] ==
        IF n = 0 THEN << >>
        ELSE IF ms[n].role = "tool" THEN said[n - 1]
             ELSE Append(said[n - 1], [ms[n] EXCEPT !.calls = 0])
  IN  said[Len(ms)]

(* The first message, when it is the system prompt, and the last one stay. *)
Middle(ms) ==
  IF Len(ms) <= 2 THEN {} ELSE (IF ms[1].role = "system" THEN 2 ELSE 1) .. (Len(ms) - 1)

(* findOldestDroppableTurn: tool traffic goes first, then whatever is oldest. *)
OldestDroppable(ms) ==
  LET turns == {i \in Middle(ms) : ms[i].role = "tool" \/ (ms[i].role = "assistant" /\ ms[i].calls > 0)}
  IN  Min(IF turns # {} THEN turns ELSE Middle(ms))

(* Messages are dropped one by one until the rest fits or only the ends remain. *)
DropMiddle(ms, budget) ==
  LET after[n \in 0 .. Len(ms)] ==
        IF n = 0 THEN ms
        ELSE LET was == after[n - 1]
             IN  IF Tokens(was) <= budget \/ Middle(was) = {} THEN was
                 ELSE RemoveAt(was, OldestDroppable(was))
  IN  after[Len(ms)]

(* truncateContentToBudget: what the other messages leave over. *)
CutContent(ms, i, budget) ==
  [ms EXCEPT ![i].size = Max({0, Min({@, budget - (Tokens(ms) - @)})})]

CutLastUser(ms, budget) ==
  LET users == {i \in DOMAIN ms : ms[i].role = "user" /\ ms[i].size > 0}
  IN  IF users = {} THEN ms ELSE CutContent(ms, Max(users), budget)

CutSystem(ms, budget) ==
  LET cut[n \in 0 .. Len(ms)] ==
        IF n = 0 THEN ms
        ELSE IF ms[n].role = "system" THEN CutContent(cut[n - 1], n, budget) ELSE cut[n - 1]
  IN  cut[Len(ms)]

(* TruncateMessages: each stage only runs when the one before did not fit. *)
TruncateMessages(ms, toolTokens, maxInput, supportsTools) ==
  LET kept   == IF supportsTools THEN ms ELSE StripTools(ms)
      budget == maxInput - (IF supportsTools THEN toolTokens ELSE 0)
      Fits(c) == Tokens(c) <= budget
      dropped == DropMiddle(kept, budget)
      cut     == CutLastUser(dropped, budget)
      last    == CutSystem(cut, budget)
      result  == CASE Fits(kept) -> kept [] ~Fits(kept) /\ Fits(dropped) -> dropped
                   [] ~Fits(kept) /\ ~Fits(dropped) /\ Fits(cut) -> cut [] OTHER -> last
  IN  [ok |-> budget > 0 /\ Fits(result), msgs |-> result]
=============================================================================

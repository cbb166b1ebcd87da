-------------------------- MODULE AllowanceModule --------------------------
(***************************************************************************)
(* The Safe AllowanceModule v1.0.0, as the treasury contracts use it        *)
(* through contracts/src/interfaces/IAllowanceModule.sol.  The module's own *)
(* code is not in this repository, so every operator below is external: it  *)
(* states the behaviour the policy and its tests rely on.                   *)
(*                                                                          *)
(* One allowance is the record a Safe keeps for one delegate and one token. *)
(* Resets are lazy: nothing happens when a period ends; the next load of    *)
(* the record sees a zero `spent` and a `lastReset` moved forward by whole  *)
(* periods.  Times are minutes, as in the module.                           *)
(***************************************************************************)
EXTENDS Integers

(* amount: the ceiling; spent: used since lastReset; reset: the period.     *)
Allowances ==
  [amount : Nat, spent : Nat, reset : Nat \ {0}, lastReset : Nat]

(* A whole number of periods has passed since the stored reset.             *)
ResetDue(a, now) == a.lastReset <= now - a.reset

(* The start of the period of length `reset` that contains `now`, for       *)
(* periods counted from `base`.                                             *)
PeriodStart(now, base, reset) == now - ((now - base) % reset)

(* getTokenAllowance: the record as it reads at minute `now`.               *)
Effective(a, now) ==
  IF ResetDue(a, now)
    THEN [a EXCEPT !.spent = 0,
                   !.lastReset = PeriodStart(now, a.lastReset, a.reset)]
    ELSE a

(* What the delegate may still move at minute `now`.                        *)
Unspent(a, now) ==
  LET e == Effective(a, now)
  IN  IF e.spent < e.amount THEN e.amount - e.spent ELSE 0

(* executeAllowanceTransfer of n > 0: the effective record is stored with   *)
(* the amount charged.  The transfer reverts unless n <= Unspent.           *)
Charged(a, n, now) ==
  LET e == Effective(a, now) IN [e EXCEPT !.spent = @ + n]

(* setAllowance with a base minute: the ceiling and period are replaced and *)
(* the period start is recomputed; what was already spent is kept unless    *)
(* its period is over.                                                      *)
Reconfigured(a, amount, reset, base, now) ==
  [amount    |-> amount,
   spent     |-> Effective(a, now).spent,
   reset     |-> reset,
   lastReset |-> PeriodStart(now, base, reset)]
=============================================================================

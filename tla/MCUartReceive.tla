---------------------------- MODULE MCUartReceive ----------------------------
(* Model checking of UartReceive: the settings a shell, a program that     *)
(* polls and an editor ask for, those with a timeout, and those of one     *)
(* that writes back what TCGETS gave it, canonical and raw.                *)
EXTENDS UartReceive

Setting(canonical, raw, nonblock, timed, minimum) ==
  [canonical |-> canonical, raw |-> raw, nonblock |-> nonblock,
   timed |-> timed, minimum |-> minimum]

UsedSettings == {Default, Setting(TRUE, FALSE, TRUE, FALSE, 1), Setting(TRUE, TRUE, FALSE, FALSE, 1),
                 Setting(FALSE, TRUE, FALSE, FALSE, 1), Setting(FALSE, TRUE, FALSE, TRUE, 0)}

OneSetting == {Default}
=============================================================================

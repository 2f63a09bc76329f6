---------------------------- MODULE MCExpiryChoice ----------------------------
(* ExpiryChoice on every white list of at most two intervals of a short day. *)
EXTENDS ExpiryChoice

WholeMinutes == {t \in TimeOfDay : t % Minute = 0}

MCInterval == WholeMinutes \X WholeMinutes
MCWhiteList == {{i, j} : i, j \in MCInterval}
MCCreation == 0 .. Day + 1
=============================================================================

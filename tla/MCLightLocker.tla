--------------------------- MODULE MCLightLocker ---------------------------
(***************************************************************************)
(* Values for TLC.  A lock-after-screensaver of 0 disables the timer, any  *)
(* other value enables it.                                                 *)
(***************************************************************************)
EXTENDS LightLocker

MCLockAfterValues == {0, 5}
OneLockAfter == {5}

Setting(late, suspend, onLid) ==
    [ lateLocking |-> late, lockOnSuspend |-> suspend, lockOnLid |-> onLid,
      idleHint |-> FALSE, lockAfter |-> 5 ]

\* The build's defaults: --no-late-locking, --lock-on-suspend, --no-lock-on-lid.
Defaults == {Setting(FALSE, TRUE, FALSE)}

\* Every mix of what a laptop's user chooses between.
LaptopSettings == {Setting(late, TRUE, onLid) : late, onLid \in BOOLEAN}

\* Without a lid.
DesktopSettings == {Setting(late, suspend, FALSE) : late, suspend \in BOOLEAN}

\* As light-locker takes the world to be, and any way it may find it.
AsAssumed == {[lid |-> FALSE, seat |-> TRUE]}
AnyStart == [lid : BOOLEAN, seat : BOOLEAN]
AnyDesktopStart == [lid : {FALSE}, seat : BOOLEAN]

NoSetting == {}
AnySetting == {"lateLocking", "lockOnSuspend", "lockOnLid", "idleHint", "lockAfter"}

=============================================================================

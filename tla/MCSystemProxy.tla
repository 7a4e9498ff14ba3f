---------------------------- MODULE MCSystemProxy ----------------------------
(***************************************************************************)
(* SystemProxy with three runs on each of the desktops.                    *)
(***************************************************************************)
EXTENDS SystemProxy, TLC

CONSTANTS r1, r2, r3

MCDesktops == {<<"windows">>, <<"gnome">>, <<"kde", "gnome">>}

Setting(mode, addr, bypass) == [mode |-> mode, http |-> addr, https |-> addr, bypass |-> bypass]
MCFound == {Setting("off", "none", "none"), Setting("on", "corp", "theirs"), Setting("auto", "none", "none")}

\* A proxy that is on for something other than HTTP.
MCNoAddress == {Setting("on", "none", "none")}

Env(mode, system, rights) == [mode |-> mode, system |-> system, rights |-> rights]
MCEnvs == {Env("proxy", TRUE, "none"), Env("tun", TRUE, "root"), Env("tun", FALSE, "service")}

Symmetry == Permutations(Runs)

=============================================================================

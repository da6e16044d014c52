----------------------------- MODULE MCPlugHost -----------------------------
(* Instances of PlugHost for TLC: plugins of plugins/ as model values.     *)
EXTENDS PlugHost

CONSTANTS cpu, oom, time, bmp
=============================================================================

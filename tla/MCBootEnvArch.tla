---------------------------- MODULE MCBootEnvArch ----------------------------
(* arm64 may come from SupportedArchitectures and amd64 from the top-level *)
(* Kernel; two repos are enough for one per arch.                          *)
EXTENDS BootEnvArch, TLC

====

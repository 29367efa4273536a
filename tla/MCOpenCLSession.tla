----------------------------- MODULE MCOpenCLSession --------------------------
(* A scaled device: group sizes of 1 to 4 items in place of up to 256, and  *)
(* sizes of 14 bits, among them one whose low word is 0 (as for 4 GiB).     *)
EXTENDS OpenCLSession

MCMargin == [j \in 0 .. W |-> IF j < 6 THEN 0 ELSE 2^(j - 6)]

MCDevices ==
  {[item |-> i, vendor |-> v, cus |-> 2, alloc |-> a, half |-> h, double |-> d] :
     i \in {2, 8}, v \in {"qualcomm", "nvidia", "other"}, a \in {16384, 8192, 12000, 2048},
     h \in BOOLEAN, d \in BOOLEAN}

MCFewDevices ==
  {d \in MCDevices : d.vendor = "other" /\ d.item = 8 /\ d.alloc \in {2048, 12000}}
===============================================================================

------------------------------- MODULE MCMegPeak -----------------------------
(* The scaled devices of MCOpenCLSession, one on a machine, under one       *)
(* command line; and small machines of several platforms under all of them. *)
EXTENDS MegPeak

MCMargin == [j \in 0 .. W |-> IF j < 6 THEN 0 ELSE 2^(j - 6)]

Gpu(i, v, a, e) == [item |-> i, vendor |-> v, cus |-> 2, alloc |-> a, exts |-> e]

\* One GPU, of every group size, vendor, memory size and set of extensions.
OneGpu ==
  {<<[gpus |-> <<Gpu(i, v, a, e)>>, strict |-> TRUE]>> :
     i \in {2, 8}, v \in {"qualcomm", "nvidia", "other"}, a \in {16384, 8192, 12000, 2048},
     e \in {{}, {"cl_khr_fp16"}, {"cl_amd_fp64"}, {"cl_khr_fp16", "cl_khr_fp64"}}}

Plain    == Gpu(8, "other", 2048, {"cl_khr_fp16"})
Hinted   == Gpu(2, "qualcomm", 8192, {"cl_qcom_perf_hint", "cl_amd_fp64"})

\* No platform, or up to three with none, one or two GPUs, in every order.
Platforms == [gpus : {<<>>, <<Plain>>, <<Plain, Hinted>>}, strict : BOOLEAN]

MCMachines == OneGpu \cup {<<>>} \cup UNION {[1 .. n -> Platforms] : n \in 1 .. 3}

OnOpenCL == {<<<<"d", "opencl">>>>}
MCCommandLines ==
  OnOpenCL \cup {<<>>, <<<<"d", "gpu">>>>, <<<<"h", "cpu">>, <<"d", "opencl">>>>,
    <<<<"d", "cpu">>, <<"i", 1>>, <<"d", "opencl">>>>,
    <<<<"i", 1>>, <<"d", "opencl">>, <<"i", 0>>>>,
    <<<<"d", "opencl">>, <<"i", -1>>>>, <<<<"d", "opencl">>, <<"i", 2>>>>}
===============================================================================

------------------------------ MODULE MCStartup ------------------------------
EXTENDS Startup

(* 32-bit Windows, whose lists stop at std, any other supported platform,  *)
(* and one that is not; no request, two valid ones and a bad one.  No step *)
(* looks at the CPU: one is enough but where a property asks about it.     *)
MCPlatforms == {"lnx", "w32", "other"}
MCRequests  == {None, "std", "avx2", "bogus"}
PlainCPU    == {{}}
MCCPUs      == {{}, {"sse41", "sse42"}, {"sse41", "sse42", "avx1", "avx2"}}
=============================================================================

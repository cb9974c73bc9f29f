--------------------------- MODULE MCInterceptors ---------------------------
(* Two interceptors; the SSE consumer and one permission handler beside    *)
(* the coroutine of run().                                                 *)
EXTENDS Interceptors

CONSTANTS i1, i2

MCOrder == <<i1, i2>>
=============================================================================

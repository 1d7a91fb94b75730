-------------------------- MODULE MCPluginRuntime --------------------------
(* Model-checking instance of PluginRuntime.                               *)
EXTENDS PluginRuntime

CONSTANTS a, b

MCNames == {a, b}
(* A request, an event and an action handler; nothing handles conditions,  *)
(* nor requests or actions for b.                                          *)
MCRegistrable ==
  {<<"HandleRequest", a>>, <<"HandleEvent", b>>, <<"RunAction", a>>}
============================================================================

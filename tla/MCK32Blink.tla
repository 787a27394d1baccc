----------------------------- MODULE MCK32Blink -----------------------------
(* Instances of K32Blink: programs whose sections are empty, end within a   *)
(* word, fill RAM, start off a word boundary, or were moved by the linker.  *)
EXTENDS K32Blink

Program(text, load, data, bss, end, constructors) ==
    [endText |-> text, loadData |-> load, endData |-> data, beginBSS |-> bss,
     endBSS |-> end, ctors |-> constructors]

SomeLayouts ==
    {Program(0, 0, 0, 0, 0, 0), Program(0, 0, 6, 8, 15, 2),
     Program(4, 4, 5, 8, 16, 1), Program(2, 2, 0, 0, 7, 1),
     Program(2, 4, 4, 4, 8, 1), Program(4, 8, 8, 8, 16, 0),
     Program(4, 4, 5, 5, 6, 1)}
=============================================================================

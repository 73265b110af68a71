---------------------------- MODULE InOrderWindow ----------------------------
(***************************************************************************)
(* What the RUU and LSQ together promise the rest of the simulator: a      *)
(* window of instructions that is filled in program order, finishes in any *)
(* order, retires in program order, and that a resolved misprediction cuts *)
(* back to the mispredicted instruction in one step.                       *)
(***************************************************************************)
EXTENDS Naturals, Sequences

CONSTANTS Size, Kind

VARIABLE window   \* oldest first: [kind, wrong (path), mispredicted, done]

Entry == [kind : Kind, wrong : BOOLEAN, mispredicted : BOOLEAN, done : BOOLEAN]

Init == window = << >>

\* The instructions behind an unfinished misprediction are on the wrong path.
WrongPath == \E i \in DOMAIN window : window[i].mispredicted /\ ~window[i].done

Dispatch ==
    /\ Len(window) < Size
    /\ \E k \in Kind, mis \in BOOLEAN :
         /\ mis => ~WrongPath
         /\ window' = Append(window, [kind |-> k, wrong |-> WrongPath,
                                      mispredicted |-> mis, done |-> FALSE])

\* Finishing a mispredicted instruction squashes everything behind it.
Finish ==
    \E i \in DOMAIN window :
       /\ ~window[i].done
       /\ LET fin == [window EXCEPT ![i].done = TRUE] IN
          window' = IF window[i].mispredicted THEN SubSeq(fin, 1, i) ELSE fin

\* Only the oldest instruction retires; it is finished and on the right path.
Retire ==
    /\ window # << >> /\ window[1].done /\ ~window[1].wrong
    /\ window' = Tail(window)

Next == Dispatch \/ Finish \/ Retire

Spec == Init /\ [][Next]_window
=============================================================================

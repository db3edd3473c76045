---------------------------- MODULE InputEncoding ----------------------------
(***************************************************************************)
(* What a key press and a pasted text become before they are sent to a     *)
(* session: handle_key_down (desktop, terminal.rs) chooses the key, and    *)
(* InputEncoder (input.rs) the bytes. Of the bytes only those are told     *)
(* apart that mean something to a terminal.                                *)
(***************************************************************************)
EXTENDS Naturals, Sequences

\* "sequence": a key with a sequence of its own; "f1" to "f12" and "beyond"
\* are function keys; "f" is the letter. Of the others, "letter" stands for
\* what a control byte exists for and "digit" for what none exists for.
KeyClasses == {"sequence", "function", "beyond", "f", "letter", "digit"}

\* char: does the platform say which text the key stands for?
Keystrokes == [class : KeyClasses, char : BOOLEAN, control : BOOLEAN, alt : BOOLEAN]

\* Keys that the platform itself turns into text, not on Linux.
IsPlainText(k) == k.char /\ k.class \in {"f", "letter", "digit"} /\ ~k.control /\ ~k.alt

\* Names that start with f are taken for function keys: the letter is no number.
IsIgnored(k, linux) ==
  \/ ~linux /\ IsPlainText(k)
  \/ k.class = "f"
  \/ k.class \in {"letter", "digit"} /\ ~k.char

\* control_byte and key_sequence find something.
HasBytes(k) ==
  CASE k.class \in {"sequence", "function"} -> TRUE
    [] k.class = "beyond" -> FALSE
    [] OTHER -> k.control => k.class = "letter"

\* What a key press asks of the tab: nothing at all, or a number of messages.
KeyOutcome(k, linux) ==
  IF IsIgnored(k, linux) THEN "ignored" ELSE IF HasBytes(k) THEN "sent" ELSE "empty"

-----------------------------------------------------------------------------
Characters == {"nul", "esc", "cr", "lf", "other"}

Opening == <<"esc", "open">>     \* ESC [200~
Ending  == <<"esc", "close">>    \* ESC [201~

\* InputEncoder::paste, of a text that is not too large.
Paste(text, bracketed) ==
  LET break == IF bracketed THEN "lf" ELSE "cr"
      rest[i \in 1 .. Len(text) + 2] ==
        IF i > Len(text) THEN <<>>
        ELSE CASE text[i] \in {"nul", "esc"} -> rest[i + 1]
               [] text[i] = "cr" -> <<break>> \o
                    rest[IF i < Len(text) /\ text[i + 1] = "lf" THEN i + 2 ELSE i + 1]
               [] text[i] = "lf" -> <<break>> \o rest[i + 1]
               [] OTHER -> <<text[i]>> \o rest[i + 1]
  IN IF bracketed THEN Opening \o rest[1] \o Ending ELSE rest[1]

\* What a paste has to be: the text's characters in their order with a break
\* for each end of a line, which may be one or two characters, and nothing
\* the shell could take for the end of the paste.
IsPasteOf(bytes, text, bracketed) ==
  LET lineEnds == {i \in DOMAIN text :
                     text[i] = "cr" \/ (text[i] = "lf" /\ (i > 1 => text[i - 1] # "cr"))}
      kept     == SelectSeq([i \in DOMAIN text |->
                               CASE i \in lineEnds -> "break"
                                 [] text[i] = "other" -> "other"
                                 [] OTHER -> "dropped"],
                            LAMBDA c : c # "dropped")
      body     == [i \in DOMAIN kept |->
                     IF kept[i] = "other" THEN "other" ELSE IF bracketed THEN "lf" ELSE "cr"]
  IN bytes = IF bracketed THEN Opening \o body \o Ending ELSE body
=============================================================================

---------------------------- MODULE AddressCheck ----------------------------
(***************************************************************************)
(* The address a user sends to: SendModal asks mm2 to validate each text   *)
(* of its field, and to convert one that has another format; wallet_page   *)
(* keeps the last verdict and the last conversion.                         *)
(*                                                                         *)
(*   - the GUI thread: the field, the Fix and Prepare buttons;             *)
(*   - pplx pool threads, which run the continuations in any order.        *)
(*                                                                         *)
(* A text is a model value; mm2 answers the same for the same text.        *)
(* Requests of the same content that are in flight together are one.       *)
(* Names are disjoint from those of AddressBook: MCWalletData extends both.*)
(***************************************************************************)
EXTENDS Naturals

CONSTANTS
    Blank,     \* the empty text
    Entered,   \* what the user may enter
    ReasonOf,  \* why mm2 refuses a text; "" if it is an address
    Converted, \* what convertaddress makes of a text, the address in the format of the coin
    Scenarios  \* bound: the steps of the user, whether he waits, and what may fail

Fault == {"lost",     \* no usable answer, of which an exception is all that is seen
          "refused"}  \* mm2 answers an error, or the request does
Scenario == [steps : Nat, patient : BOOLEAN, faults : SUBSET Fault]

\* The reasons that set_validate_address_data tells apart.
Reason == {"", "Checksum verification failed", "Invalid address checksum",
           "Cashaddress address format activated for BCH, but legacy format used instead",
           "Address must be prefixed with 0x", "Invalid input length", "invalid address",
           "Invalid Checksum", "has invalid prefixes", "unknown error"}

AddressConstants ==
    /\ Blank \in Entered
    /\ ReasonOf \in [Entered -> Reason]
    /\ Converted \in [Entered -> Entered]
    /\ \A t \in Entered : ReasonOf[Converted[t]] = ""
    /\ Scenarios \subseteq Scenario

VARIABLES
    patient, faults, acts, \* whether the user waits, what may fail, what he may still do
    text,        \* the text of the field
    view,        \* errorView and needFix of the modal
    format,      \* address_data: whether it has a format to convert to
    validating,  \* the texts whose verdict is asked for
    converting,  \* those that mm2 is asked to convert
    busy,        \* the raised flags among validate_address_busy, convert_address_busy
    data,        \* m_validate_address_result
    converted    \* m_converted_address

checkVars ==
    <<patient, faults, acts, text, view, format, validating, converting, busy, data, converted>>
scenario == <<patient, faults>>

Verdict == [reason : Reason, convertible : BOOLEAN]

CheckTypeOK ==
    /\ patient \in BOOLEAN /\ faults \subseteq Fault /\ acts \in Nat
    /\ text \in Entered /\ converted \in Entered
    /\ view \in [error : BOOLEAN, needFix : BOOLEAN]
    /\ format \in BOOLEAN
    /\ validating \subseteq Entered /\ converting \subseteq Entered
    /\ busy \subseteq {"validate", "convert"}
    /\ data \in Verdict

\* A SendModal that has just been created.
NewModal == text' = Blank /\ view' = [error |-> FALSE, needFix |-> FALSE] /\ format' = FALSE

CheckInit ==
    /\ \E s \in Scenarios : patient = s.patient /\ faults = s.faults /\ acts = s.steps
    /\ text = Blank /\ view = [error |-> FALSE, needFix |-> FALSE] /\ format = FALSE
    /\ validating = {} /\ converting = {} /\ busy = {}
    /\ data = [reason |-> "", convertible |-> FALSE]
    /\ converted = Blank

Acts == acts > 0 /\ acts' = acts - 1 /\ (patient => busy = {})

-----------------------------------------------------------------------------
(* Validating.                                                             *)

\* validate_address: the flag is raised, whatever is in flight.
Validate(t) == validating' = validating \cup {t} /\ busy' = busy \cup {"validate"}

\* onTextChanged, when the user types, pastes, or picks a contact.
Enter(t) ==
    /\ Acts /\ t # text
    /\ text' = t
    /\ Validate(t)
    /\ UNCHANGED <<scenario, view, format, converting, data, converted>>

\* The modal is closed, and opened again.
Reopen ==
    /\ Acts /\ text # Blank
    /\ NewModal
    /\ UNCHANGED <<scenario, validating, converting, busy, data, converted>>

\* set_validate_address_data: two of the reasons are about the format only.
SetValidateAddressData(reason) ==
    [reason |-> reason,
     convertible |-> reason \in {"Invalid address checksum",
         "Cashaddress address format activated for BCH, but legacy format used instead"}]

\* validate_address_answer, and what stands for one that is an error.
Answers(t) == {ReasonOf[t]} \cup IF "refused" \in faults THEN {"unknown error"} ELSE {}

\* Mutant of VerdictRead: the error of an earlier text is not taken back.
VerdictKept(d) ==
    view' = [error   |-> view.error \/ d.reason # "",
             needFix |-> view.needFix \/ d.convertible]

\* onIs_validate_address_busyChanged.
VerdictRead(d) ==
    view' = [error   |-> d.reason # "",
             needFix |-> view.needFix \/ d.convertible]

\* The continuation of validate_address.  The modal only reads a verdict when the
\* flag falls: a second answer finds it lowered.
ValidateAnswered(t) ==
    /\ t \in validating
    /\ validating' = validating \ {t}
    /\ \E reason \in Answers(t) :
          /\ data' = SetValidateAddressData(reason)
          /\ busy' = busy \ {"validate"}
          /\ IF "validate" \notin busy THEN UNCHANGED <<view, format>>
             ELSE VerdictRead(data') /\ format' = data'.convertible
    /\ UNCHANGED <<scenario, acts, text, converting, converted>>

\* An exception of either continuation is only logged: the flag stays up.
AnswerLost(t) ==
    /\ "lost" \in faults
    /\ \/ t \in validating /\ validating' = validating \ {t} /\ UNCHANGED converting
       \/ t \in converting /\ converting' = converting \ {t} /\ UNCHANGED validating
    /\ UNCHANGED <<scenario, acts, text, view, format, busy, data, converted>>

-----------------------------------------------------------------------------
(* Converting.                                                             *)

\* The Fix button calls convert_address.
Fix ==
    /\ Acts /\ view.error /\ view.needFix /\ text # Blank
    /\ converting' = converting \cup {text} /\ busy' = busy \cup {"convert"}
    /\ UNCHANGED <<scenario, text, view, format, validating, data, converted>>

\* convert_address_answer: without a format to convert to mm2 answers an error, and
\* the last conversion stays.
Conversions(t) ==
    (IF format THEN {Converted[t]} ELSE {})
      \cup (IF ~format \/ "refused" \in faults THEN {converted} ELSE {})

\* The continuation of convert_address, and onIs_convert_address_busyChanged: the
\* field gets the last conversion, and is validated if that changes its text.
ConvertAnswered(t) ==
    /\ t \in converting
    /\ converting' = converting \ {t}
    /\ converted' \in Conversions(t)
    /\ IF "convert" \in busy /\ view.needFix
       THEN /\ view' = [view EXCEPT !.needFix = FALSE]
            /\ text' = converted'
            /\ busy' = (busy \ {"convert"}) \cup IF converted' = text THEN {} ELSE {"validate"}
            /\ validating' = validating \cup ({converted'} \ {text})
       ELSE busy' = busy \ {"convert"} /\ UNCHANGED <<view, text, validating>>
    /\ UNCHANGED <<scenario, acts, format, data>>

-----------------------------------------------------------------------------
CheckNext ==
    \/ \E t \in Entered : Enter(t) \/ ValidateAnswered(t) \/ AnswerLost(t) \/ ConvertAnswered(t)
    \/ Reopen \/ Fix

CheckSpec == CheckInit /\ [][CheckNext]_checkVars

-----------------------------------------------------------------------------
(* Properties.                                                             *)

\* Once no flag is up, a user who waits for each verdict is offered Prepare for an
\* address and for nothing else, through failures, conversions and modals that are
\* closed and opened again; and an address is not refused unless a request failed.
\* (A user who does not wait may be shown the verdict of an earlier text, and sees no
\* other one.)
VerdictIsOfText ==
    (patient /\ busy = {} /\ text # Blank) =>
        /\ ReasonOf[text] # "" => view.error
        /\ (ReasonOf[text] = "" /\ faults = {}) => ~view.error
=============================================================================

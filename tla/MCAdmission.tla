---------------------------- MODULE MCAdmission ----------------------------
(* Two worker services, the api, the control and the marker. *)
EXTENDS AdmissionDeploy

MCWorkers == {"w1", "w2"}
=============================================================================

------------------------------ MODULE Contract ------------------------------
(***************************************************************************)
(* The contract a plugin declares (src/go/plugin_contract.go) and the two  *)
(* checks a host or a build makes of it (src/go/plugin_helper.go).  An     *)
(* error is the part of the contract it is about.                          *)
(***************************************************************************)
EXTENDS FiniteSets

CONSTANTS
  Names,        \* plugin names; NoName is the empty one
  NoName,
  SensorTypes   \* sensor types; all declared ones are accepted

VARIABLE contract  \* the contract looked at

\* The constants of PluginRole, PluginInterface and PluginCapability.
PluginRole ==
  {"hub", "sensorProvider", "cameraController", "cameraAndSensorProvider", "service"}

PluginInterface ==
  {"MotionDetection", "ObjectDetection", "AudioDetection", "FaceDetection",
   "LicensePlateDetection", "ClassifierDetection", "ClipDetection", "FaceEmbedding",
   "DiscoveryProvider", "SensorDiscovery", "NVR", "Notifier", "OAuthCapable",
   "OAuthDeviceFlow", "OAuthAuthCodeFlow", "OAuthClientCredentials",
   "AssistantTools", "AssistantModels"}

PluginCapability == {"publishNotifications"}

\* A contract with at most one interface.
PluginContract ==
  [name : Names \cup {NoName}, role : PluginRole, provides : SUBSET SensorTypes,
   consumes : SUBSET SensorTypes, interfaces : {{}} \cup {{i} : i \in PluginInterface},
   capabilities : SUBSET PluginCapability]

-----------------------------------------------------------------------------
(* The lists of accepted values                                             *)

ValidRoles ==
  {"hub", "sensorProvider", "cameraController", "cameraAndSensorProvider"}

ValidInterfaces ==
  {"MotionDetection", "ObjectDetection", "AudioDetection", "FaceDetection",
   "LicensePlateDetection", "ClassifierDetection", "ClipDetection", "DiscoveryProvider",
   "SensorDiscovery", "Notifier", "NVR", "OAuthCapable", "OAuthDeviceFlow",
   "OAuthAuthCodeFlow", "OAuthClientCredentials"}

ValidCapabilities == {"publishNotifications"}
ValidSensorTypes == SensorTypes

GetContractValidationErrors(c) ==
  {"name" : x \in {y \in {1} : c.name = NoName}}
    \cup {"role" : x \in {c.role} \ ValidRoles}
    \cup {"provides" : x \in c.provides \ ValidSensorTypes}
    \cup {"consumes" : x \in c.consumes \ ValidSensorTypes}
    \cup {"interfaces" : x \in c.interfaces \ ValidInterfaces}
    \cup {"capabilities" : x \in c.capabilities \ ValidCapabilities}

\* ValidateContractConsistency returns nil.
Consistent(c) ==
  CASE c.role = "hub" -> c.provides = {}
    [] c.role \in {"sensorProvider", "cameraAndSensorProvider"} -> c.provides # {}
    [] c.role = "service" -> c.provides = {} /\ c.consumes = {}
    [] OTHER -> TRUE

-----------------------------------------------------------------------------
Init == contract \in PluginContract

\* The plugin is published with another contract.
Declare == contract' \in PluginContract

Spec == Init /\ [][Declare]_contract

-----------------------------------------------------------------------------
(* Properties                                                               *)

\* GetContractValidationErrors returns "an empty slice when the contract is valid": a
\* contract with a name, of declared values, that is consistent for its role has no
\* error.
DeclaredIsValid ==
  contract.name # NoName /\ Consistent(contract) => GetContractValidationErrors(contract) = {}
=============================================================================

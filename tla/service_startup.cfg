SPECIFICATION Spec
CONSTANTS
  Services = {"gateway", "ingestion-service"}
  Launcher <- Containers
INVARIANTS
  ServicesExposeMetrics
